---- MODULE Spec2Model ----
(***************************************************************************)
(* Model of the actor-critic learning engine of Markov-Pilot               *)
(* (src/gym_jsbsim/learn/ddpg_torch_eee.py): the replay buffer, the        *)
(* Ornstein-Uhlenbeck noise source, the DDPG / MADDPG agents and the       *)
(* target network synchronisation.                                         *)
(*                                                                         *)
(* Numbers.  The program computes in floating point; the model computes    *)
(* exactly, on integers.  A network parameter p of the model stands for    *)
(* the real number p / Scale, a noise value x for x / NoiseScale.  Scale   *)
(* is a power of TauDen large enough that every soft update the bounds     *)
(* allow divides exactly, so the model's arithmetic is the arithmetic of   *)
(* the reals (no rounding, no overflow, no NaN).                           *)
(*                                                                         *)
(* Python indices are 0-based.  Buffer slots are 0-based in the model as   *)
(* well; positions in a batch and in agents_list are 1-based (sequences).  *)
(***************************************************************************)
EXTENDS Integers, Sequences, FiniteSets, TLC

(***************************************************************************)
(* Bounds of the model                                                     *)
(***************************************************************************)
\* max_size handed to ReplayBuffer (default 1000000)
MemSize == 2
\* number of store_transition calls explored on one buffer beyond its capacity
ExtraStores == 2
\* batch_size handed to the agents and to get_batch_idxs (default 64)
BatchSize == 2

MaxStores == MemSize + ExtraStores

Slots == 0 .. (MemSize - 1)

(***************************************************************************)
(* Transitions handed to store_transition / remember.  Observations,       *)
(* actions and rewards are scalars (input_shape = actions_shape = (1,)).   *)
(***************************************************************************)
Transition(o, a, r, o2, d) ==
    [obs |-> o, action |-> a, reward |-> r, obs_next |-> o2, done |-> d]

\* every field takes two values, and no two fields agree on all four
StoreInputs ==
    { Transition(1, 1, 1, 2, FALSE), Transition(2, 1, 2, 1, TRUE),
      Transition(1, 2, 2, 1, FALSE), Transition(2, 2, 1, 2, TRUE) }

(***************************************************************************)
(* class ReplayBuffer                                                      *)
(***************************************************************************)
\* ReplayBuffer.__init__: five zero-filled arrays and a write counter
ReplayBuffer(max_size) ==
    [ mem_size        |-> max_size,
      mem_cntr        |-> 0,
      obs_memory      |-> [k \in 0 .. (max_size - 1) |-> 0],
      obs_next_memory |-> [k \in 0 .. (max_size - 1) |-> 0],
      action_memory   |-> [k \in 0 .. (max_size - 1) |-> 0],
      reward_memory   |-> [k \in 0 .. (max_size - 1) |-> 0],
      terminal_memory |-> [k \in 0 .. (max_size - 1) |-> 0] ]

\* Python's 1 - done for a bool
OneMinus(done) == IF done THEN 0 ELSE 1

\* mutant: the write position stops at the last slot instead of wrapping
store_transition_nowrap(buf, obs, action, reward, obs_next, done) ==
    LET index == IF buf.mem_cntr < buf.mem_size THEN buf.mem_cntr
                 ELSE buf.mem_size - 1
    IN [buf EXCEPT !.obs_memory[index]      = obs,
                   !.obs_next_memory[index] = obs_next,
                   !.action_memory[index]   = action,
                   !.reward_memory[index]   = reward,
                   !.terminal_memory[index] = OneMinus(done),
                   !.mem_cntr               = @ + 1]

\* mutant: the next observation goes to the slot after the one written
store_transition_skewed(buf, obs, action, reward, obs_next, done) ==
    LET index == buf.mem_cntr % buf.mem_size
    IN [buf EXCEPT !.obs_memory[index]      = obs,
                   !.obs_next_memory[(index + 1) % buf.mem_size] = obs_next,
                   !.action_memory[index]   = action,
                   !.reward_memory[index]   = reward,
                   !.terminal_memory[index] = OneMinus(done),
                   !.mem_cntr               = @ + 1]

\* mutant: the done flag is stored as it comes
store_transition_plainflag(buf, obs, action, reward, obs_next, done) ==
    LET index == buf.mem_cntr % buf.mem_size
    IN [buf EXCEPT !.obs_memory[index]      = obs,
                   !.obs_next_memory[index] = obs_next,
                   !.action_memory[index]   = action,
                   !.reward_memory[index]   = reward,
                   !.terminal_memory[index] = 1 - OneMinus(done),
                   !.mem_cntr               = @ + 1]

store_transition(buf, obs, action, reward, obs_next, done) ==
    LET index == buf.mem_cntr % buf.mem_size
    IN [buf EXCEPT !.obs_memory[index]      = obs,
                   !.obs_next_memory[index] = obs_next,
                   !.action_memory[index]   = action,
                   !.reward_memory[index]   = reward,
                   !.terminal_memory[index] = OneMinus(done),
                   !.mem_cntr               = @ + 1]

Min(a, b) == IF a < b THEN a ELSE b

\* mutant: draws from the whole array, filled or not
get_batch_idxs_unfilled(buf, batch_size) ==
    [1 .. batch_size -> 0 .. (buf.mem_size - 1)]

\* np.random.choice(max_mem, batch_size): every batch_size-sequence over
\* 0 .. max_mem-1 is a possible draw; with max_mem = 0 there is none
\* (numpy raises ValueError)
get_batch_idxs(buf, batch_size) ==
    LET max_mem == Min(buf.mem_cntr, buf.mem_size)
    IN [1 .. batch_size -> 0 .. (max_mem - 1)]

\* numpy fancy indexing array[batch_idxs] on each of the five arrays
get_samples_from_buffer(buf, batch_idxs) ==
    [ obs      |-> [p \in DOMAIN batch_idxs |-> buf.obs_memory[batch_idxs[p]]],
      actions  |-> [p \in DOMAIN batch_idxs |-> buf.action_memory[batch_idxs[p]]],
      rewards  |-> [p \in DOMAIN batch_idxs |-> buf.reward_memory[batch_idxs[p]]],
      obs_next |-> [p \in DOMAIN batch_idxs |-> buf.obs_next_memory[batch_idxs[p]]],
      terminal |-> [p \in DOMAIN batch_idxs |-> buf.terminal_memory[batch_idxs[p]]] ]

(***************************************************************************)
(* Hyperparameters handed to the agents' constructors                      *)
(***************************************************************************)
\* tau = TauNum / TauDen
TauNum == 1
TauDen == 4
\* gamma = GammaNum / GammaDen (the training script's default, 0.95)
GammaNum == 19
GammaDen == 20

\* learn calls that pass the fill guard, per agent
MaxLearns == 2

\* a parameter p of the model is the real number p / Scale; every soft update
\* divides by TauDen, and MaxLearns of them stay on the integers
Scale == TauDen ^ MaxLearns

\* a critic output q of the model is the real number q / (Scale * Scale),
\* a TD target or a critic value in the loss y / ValueUnit
ValueUnit == Scale * Scale * GammaDen

\* a rate tau as handed to _update_network_parameters; TauArgNone is tau=None
Rate(num, den) == [num |-> num, den |-> den]
TauArgNone == [num |-> 0, den |-> 0]

Sign(x) == IF x > 0 THEN 1 ELSE IF x < 0 THEN -1 ELSE 0

RECURSIVE SumSeq(_)
SumSeq(s) == IF s = <<>> THEN 0 ELSE Head(s) + SumSeq(Tail(s))

(***************************************************************************)
(* class ActorNetwork, class CriticNetwork.  The model keeps one weight    *)
(* per layer it names and drops layer normalisation and the second hidden  *)
(* layer: forward is a function of the parameters and the inputs, bounded  *)
(* for the actor as tanh is; which parameters and which inputs an update   *)
(* reads and writes is as in the program.                                  *)
(***************************************************************************)
ActorNames == {"fc1", "mu"}
CriticNames == {"fc1", "action_value", "q"}

\* the uniform random initialisation of an actor and a critic built together
\* draws one of these
NetworkInits ==
    { [ actor  |-> [fc1 |-> 0, mu |-> 0],
        critic |-> [fc1 |-> 0, action_value |-> 0, q |-> 0] ],
      [ actor  |-> [fc1 |-> Scale, mu |-> 0 - Scale],
        critic |-> [fc1 |-> Scale, action_value |-> 0 - Scale, q |-> 0] ] }

Clamp(x, lo, hi) == IF x < lo THEN lo ELSE IF x > hi THEN hi ELSE x

\* ActorNetwork.forward: observation (a number) to an action in [-1, 1],
\* in units of 1 / Scale
actor_forward(params, obs) ==
    Clamp(params.fc1 * obs + params.mu, 0 - Scale, Scale)

\* CriticNetwork.forward: state is one row of the input (numbers in units of
\* 1 / Scale), action is in units of 1 / Scale; the value is in units of
\* 1 / (Scale * Scale)
critic_forward(params, state, action) ==
    params.fc1 * SumSeq(state) + params.action_value * action + params.q * Scale

\* an observation or a stored action as network input, in units of 1 / Scale
AsInput(x) == x * Scale

\* optimizer.step() of Adam, as its first step does it: every parameter moves
\* by the learning rate against the sign of its gradient (zero gradient, no move)
adam_step(params, grad) ==
    [n \in DOMAIN params |-> params[n] - Scale * grad[n]]

\* mutant: the bootstrap term is not masked
td_target_unmasked(reward, target_critic_next_value, continuing) ==
    reward * ValueUnit + GammaNum * target_critic_next_value

\* reward + gamma * target_critic_next_value * done, in units of 1 / ValueUnit
\* (done holds the stored flag, 1 - done of the transition)
td_target(reward, target_critic_next_value, continuing) ==
    reward * ValueUnit + GammaNum * target_critic_next_value * continuing

\* the sign of d mse_loss(target_value, critic_value) / d params: rows holds the
\* critic's input rows, actions its second input
critic_grad(target_value, critic_value, rows, actions) ==
    LET B == DOMAIN target_value
        err(p) == critic_value[p] - target_value[p]
    IN [ fc1          |-> Sign(SumSeq([p \in B |-> err(p) * SumSeq(rows[p])])),
         action_value |-> Sign(SumSeq([p \in B |-> err(p) * actions[p]])),
         q            |-> Sign(SumSeq([p \in B |-> err(p)])) ]

\* the sign of d mean(-critic(rows, actor(obs))) / d actor params; tanh rises
\* everywhere, so the sign is that of -action_value times the input's
actor_grad(critic_params, obs) ==
    LET B == DOMAIN obs
    IN [ fc1 |-> 0 - Sign(critic_params.action_value)
                       * Sign(SumSeq([p \in B |-> obs[p]])),
         mu  |-> 0 - Sign(critic_params.action_value) ]

(***************************************************************************)
(* The blend of _update_network_parameters as the tensors compute it.  The *)
(* parameters are float32 tensors: every product and every sum is rounded  *)
(* to the nearest float, ties to even.  The model's float keeps            *)
(* MantissaBits significant bits (float32 keeps 24) and an unbounded       *)
(* exponent.  A number is an integer count of units: tau and the           *)
(* parameters in units of 1 / FineUnit, products and sums in units of      *)
(* 1 / (FineUnit * FineUnit).                                              *)
(***************************************************************************)
MantissaBits == 4

FineBits == 8

FineUnit == 2 ^ FineBits

Abs(x) == IF x < 0 THEN 0 - x ELSE x

\* number of binary digits of n >= 0
RECURSIVE BitLen(_)
BitLen(n) == IF n = 0 THEN 0 ELSE 1 + BitLen(n \div 2)

\* the float nearest to the number n (in any unit), ties to even
Fl(n) ==
    LET a == Abs(n)
        ulp == IF BitLen(a) > MantissaBits THEN 2 ^ (BitLen(a) - MantissaBits) ELSE 1
        q == a \div ulp
        r == a % ulp
        up == (2 * r > ulp) \/ (2 * r = ulp /\ q % 2 = 1)
    IN Sign(n) * ulp * (IF up THEN q + 1 ELSE q)

\* tau * online.clone() + (1 - tau) * target.clone() on float tensors: the
\* Python numbers tau and 1 - tau become floats when they meet the tensor
blend_float(tau, online, target) ==
    Fl(Fl(Fl(tau) * online) + Fl(Fl(FineUnit - tau) * target))

(***************************************************************************)
(* class OUActionNoise.  A noise value x of the model is the real number   *)
(* x / NoiseScale.  theta = ThetaNum / ThetaDen, dt = DtNum / DtDen,       *)
(* sigma = SigmaNum / SigmaDen; mu and x0 are zero as the agents build it. *)
(***************************************************************************)
ThetaNum == 1
ThetaDen == 5
DtNum == 1
DtDen == 5
SigmaNum == 3
SigmaDen == 20

\* noise samples drawn between two resets, per agent
MaxNoise == 1

NoiseScale == SigmaDen * ((ThetaDen * DtDen) ^ MaxNoise)

\* the values sqrt(dt) * np.random.normal() takes
NormalDraws == {-1, 1}

\* OUActionNoise.__call__ with mu = 0; w is the value of sqrt(dt) * normal draw
OUActionNoise_call(x_prev, w) ==
    x_prev + (ThetaNum * DtNum * (0 - x_prev)) \div (ThetaDen * DtDen)
           + (SigmaNum * w * NoiseScale) \div SigmaDen

\* OUActionNoise.reset with x0 = None: zeros_like(mu)
OUActionNoise_reset == 0

\* a noise source built with any mu, sigma and x0, used on its own: calls made
\* on one source, and the unit of its values (a value x of such a source is
\* the real number x / OUScale)
MaxCalls == 3

OUScale == SigmaDen * ((ThetaDen * DtDen) ^ MaxCalls)

\* x0 as handed to the constructor: <<>> is None, <<v>> the number v
NoX0 == <<>>

\* mutant: reset starts from mu whatever x0 is
noise_reset_to_mu(ou) == [ou EXCEPT !.x_prev = ou.mu]

\* OUActionNoise.reset: x_prev = x0 if x0 is not None else zeros_like(mu)
noise_reset(ou) ==
    [ou EXCEPT !.x_prev = IF ou.x0 # NoX0 THEN ou.x0[1] ELSE 0]

\* OUActionNoise.__init__(mu, sigma, theta, dt, x0) with theta and dt as the
\* agents pass them; mu and the number in x0 are plain numbers, sigma is a rate
OUActionNoise_init(mu, sigma, x0) ==
    noise_reset([ mu |-> mu * OUScale, sigma |-> sigma,
                  theta |-> Rate(ThetaNum, ThetaDen), dt |-> Rate(DtNum, DtDen),
                  x0 |-> IF x0 = NoX0 THEN NoX0 ELSE << x0[1] * OUScale >>,
                  x_prev |-> 0 ])

\* mutant: the sample is returned but not kept
noise_call_stale(ou, w) ==
    LET x == ou.x_prev
                + (ou.theta.num * ou.dt.num * (ou.mu - ou.x_prev))
                      \div (ou.theta.den * ou.dt.den)
                + (ou.sigma.num * w * OUScale) \div ou.sigma.den
    IN [ou |-> ou, ret |-> x]

\* OUActionNoise.__call__: w is the value of sqrt(dt) * the normal draw; the
\* source afterwards, and the value returned
noise_call(ou, w) ==
    LET x == ou.x_prev
                + (ou.theta.num * ou.dt.num * (ou.mu - ou.x_prev))
                      \div (ou.theta.den * ou.dt.den)
                + (ou.sigma.num * w * OUScale) \div ou.sigma.den
    IN [ou |-> [ou EXCEPT !.x_prev = x], ret |-> x]

(***************************************************************************)
(* class Agent_Multi, class Agent_Single                                   *)
(***************************************************************************)
Agents == {1, 2}

\* the list every learn call is handed: all trainers, in their order
Trainers == <<1, 2>>

NoAgent == [cls |-> "None"]

\* mutant: the weights of the blend are exchanged
update_network_parameters_swapped(ag, tau) ==
    LET t == IF tau = TauArgNone THEN ag.tau ELSE tau
        critic_state_dict ==
            [name \in DOMAIN ag.critic |->
                ((t.den - t.num) * ag.critic[name]
                    + t.num * ag.target_critic[name]) \div t.den]
        actor_state_dict ==
            [name \in DOMAIN ag.actor |->
                ((t.den - t.num) * ag.actor[name]
                    + t.num * ag.target_actor[name]) \div t.den]
    IN [ag EXCEPT !.target_critic = critic_state_dict,
                  !.target_actor = actor_state_dict]

\* _update_network_parameters(tau): blend per parameter name, then
\* load_state_dict into the target networks
_update_network_parameters(ag, tau) ==
    LET t == IF tau = TauArgNone THEN ag.tau ELSE tau
        critic_state_dict ==
            [name \in DOMAIN ag.critic |->
                (t.num * ag.critic[name]
                    + (t.den - t.num) * ag.target_critic[name]) \div t.den]
        actor_state_dict ==
            [name \in DOMAIN ag.actor |->
                (t.num * ag.actor[name]
                    + (t.den - t.num) * ag.target_actor[name]) \div t.den]
    IN [ag EXCEPT !.target_critic = critic_state_dict,
                  !.target_actor = actor_state_dict]

\* the Box every agent is given as action_space (one dimension)
ActionSpace == [low |-> 0, high |-> 4]

\* the attributes both constructors set before they synchronise the targets;
\* nn.Module starts in training mode
AgentFields(class, n_inputs, actor0, critic0, target_actor0, target_critic0) ==
    [ cls              |-> class,
      tau              |-> Rate(TauNum, TauDen),
      batch_size       |-> BatchSize,
      scale            |-> (ActionSpace.high - ActionSpace.low) \div 2,
      shift            |-> (ActionSpace.high + ActionSpace.low) \div 2,
      memory           |-> ReplayBuffer(MemSize),
      actor            |-> actor0,
      critic           |-> critic0,
      target_actor     |-> target_actor0,
      target_critic    |-> target_critic0,
      critic_n_inputs  |-> n_inputs,
      actor_optimizer  |-> [step |-> 0],
      critic_optimizer |-> [step |-> 0],
      training         |-> [actor |-> TRUE, critic |-> TRUE,
                            target_actor |-> TRUE, target_critic |-> TRUE],
      x_prev           |-> OUActionNoise_reset,
      noise_samples    |-> 0,
      global_step      |-> 0,
      episode_counter  |-> 0 ]

\* mutant: the constructor synchronises with the configured tau
Agent_Multi_init_softsync(actor0, critic0, target_actor0, target_critic0) ==
    _update_network_parameters(
        AgentFields("Agent_Multi", 3, actor0, critic0, target_actor0, target_critic0),
        TauArgNone)

\* Agent_Multi.__init__ as get_trainers calls it for a team of two: the critic
\* takes both observations and the other agent's action
Agent_Multi_init(actor0, critic0, target_actor0, target_critic0) ==
    _update_network_parameters(
        AgentFields("Agent_Multi", 3, actor0, critic0, target_actor0, target_critic0),
        Rate(1, 1))

\* Agent_Multi.__init__ with the default other_input_shapes = [(0, )] and
\* other_actions_shapes = [(0, )]: the critic takes the own observation
Agent_Multi_init_default(actor0, critic0, target_actor0, target_critic0) ==
    _update_network_parameters(
        AgentFields("Agent_Multi", 1, actor0, critic0, target_actor0, target_critic0),
        Rate(1, 1))

\* Agent_Single.__init__: the critic takes the own observation
Agent_Single_init(actor0, critic0, target_actor0, target_critic0) ==
    _update_network_parameters(
        AgentFields("Agent_Single", 1, actor0, critic0, target_actor0, target_critic0),
        Rate(1, 1))

\* an action choose_action returns is the real number a / ActionUnit
ActionUnit == Scale * NoiseScale

\* mutant: the noise source is sampled also when no exploration noise is asked
\* for (the sample is dropped)
choose_action_always_samples(ag, observation, add_exploration_noise, w) ==
    LET mu == actor_forward(ag.actor, observation)
        x == OUActionNoise_call(ag.x_prev, w)
        mu_np == IF add_exploration_noise
                 THEN mu * NoiseScale + x * Scale
                 ELSE mu * NoiseScale
    IN [ agent |-> [ag EXCEPT !.training.actor = TRUE, !.x_prev = x],
         ret |-> mu_np * ag.scale + ag.shift * ActionUnit ]

\* choose_action(observation, add_exploration_noise): the actor is evaluated in
\* eval mode and set back to training mode, the noise source is sampled once
\* if asked for (w is its draw), the sum is scaled and shifted; agent is the
\* agent afterwards, ret the action returned
choose_action(ag, observation, add_exploration_noise, w) ==
    LET mu == actor_forward(ag.actor, observation)
        x == OUActionNoise_call(ag.x_prev, w)
        mu_np == IF add_exploration_noise
                 THEN mu * NoiseScale + x * Scale
                 ELSE mu * NoiseScale
    IN [ agent |-> IF add_exploration_noise
                   THEN [ag EXCEPT !.training.actor = TRUE,
                                   !.x_prev = x,
                                   !.noise_samples = @ + 1]
                   ELSE [ag EXCEPT !.training.actor = TRUE],
         ret |-> mu_np * ag.scale + ag.shift * ActionUnit ]

\* remember
remember(ag, t) ==
    [ag EXCEPT !.memory = store_transition(ag.memory, t.obs, t.action, t.reward,
                                           t.obs_next, t.done),
               !.episode_counter = IF t.done THEN @ + 1 ELSE @,
               !.global_step = @ + 1]

\* mutant: the guard lets a buffer with one transition through
learn_returns_early_nonempty(ag) == ag.memory.mem_cntr = 0

\* the fill guard of learn
learn_returns_early(ag) == ag.memory.mem_cntr < ag.batch_size

\* list.pop(idx) leaves this list (idx is a 1-based position)
RemoveAt(seq, idx) ==
    [k \in 1 .. (Len(seq) - 1) |-> IF k < idx THEN seq[k] ELSE seq[k + 1]]

\* T.cat(tensors) along dim 0: the batches one after the other
RECURSIVE CatDim0(_)
CatDim0(tensors) ==
    IF tensors = <<>> THEN <<>> ELSE Head(tensors) \o CatDim0(Tail(tensors))

\* what the tensor operations of Agent_Multi.learn raise for the agents of
\* agents_list and a batch of batch transitions (observations and actions are
\* one number wide): T.cat of the others' actions has no tensor to join with
\* one agent, and joins along dim 0, so with more than one other agent it
\* has more rows than the state it is joined to along dim 1; the critic's first
\* layer takes critic_n_inputs numbers
learn_raises(ag, agents_list, batch) ==
    LET N == Len(agents_list)
        other_rows == (N - 1) * batch
        width == N + 1
    IN IF N - 1 = 0 THEN "RuntimeError"
       ELSE IF other_rows # batch THEN "RuntimeError"
       ELSE IF width # ag.critic_n_inputs THEN "RuntimeError"
       ELSE "none"

\* target networks and critic to eval mode
learn_eval_modes(ag) ==
    [ag EXCEPT !.training.target_actor = FALSE,
               !.training.target_critic = FALSE,
               !.training.critic = FALSE]

\* mutant: the TD target is computed from the online networks
Agent_Single_learn_evaluate_online(ag, samples) ==
    LET B == DOMAIN samples.obs
        state == [p \in B |-> <<AsInput(samples.obs[p])>>]
        new_state == [p \in B |-> <<AsInput(samples.obs_next[p])>>]
        target_next_actions ==
            [p \in B |-> actor_forward(ag.actor, samples.obs_next[p])]
        target_critic_next_value ==
            [p \in B |-> critic_forward(ag.critic, new_state[p],
                                        target_next_actions[p])]
        actual_action == [p \in B |-> AsInput(samples.actions[p])]
    IN [ target_value |->
            [p \in B |-> td_target(samples.rewards[p], target_critic_next_value[p],
                                   samples.terminal[p])],
         critic_value |->
            [p \in B |-> GammaDen * critic_forward(ag.critic, state[p],
                                                   actual_action[p])],
         input_value_fn |-> state,
         own_actual_action |-> actual_action ]

\* Agent_Single.learn, from the target actor's forward pass to target_value
Agent_Single_learn_evaluate(ag, samples) ==
    LET B == DOMAIN samples.obs
        state == [p \in B |-> <<AsInput(samples.obs[p])>>]
        new_state == [p \in B |-> <<AsInput(samples.obs_next[p])>>]
        target_next_actions ==
            [p \in B |-> actor_forward(ag.target_actor, samples.obs_next[p])]
        target_critic_next_value ==
            [p \in B |-> critic_forward(ag.target_critic, new_state[p],
                                        target_next_actions[p])]
        actual_action == [p \in B |-> AsInput(samples.actions[p])]
    IN [ target_value |->
            [p \in B |-> td_target(samples.rewards[p], target_critic_next_value[p],
                                   samples.terminal[p])],
         critic_value |->
            [p \in B |-> GammaDen * critic_forward(ag.critic, state[p],
                                                   actual_action[p])],
         input_value_fn |-> state,
         own_actual_action |-> actual_action ]

\* mutant: the agents after the first are fetched with the indices in reverse
\* order, as a draw of their own would give
learn_fetch_reshuffled(ags, agents_list, batch_idxs) ==
    [k \in DOMAIN agents_list |->
        get_samples_from_buffer(
            ags[agents_list[k]].memory,
            IF k = 1 THEN batch_idxs
            ELSE [p \in DOMAIN batch_idxs |-> batch_idxs[Len(batch_idxs) + 1 - p]])]

\* Agent_Multi.learn: [ag.agent.memory.get_samples_from_buffer(batch_idxs)
\* for ag in agents_list]
learn_fetch(ags, agents_list, batch_idxs) ==
    [k \in DOMAIN agents_list |->
        get_samples_from_buffer(ags[agents_list[k]].memory, batch_idxs)]

\* mutant: own_idx is ignored, the first agent's tensor is taken
own_of_first(tensors_n, own_idx) == tensors_n[1]

\* rwd_n_t[own_idx], done_n_t[own_idx]: the updating agent's tensor
own_of(tensors_n, own_idx) == tensors_n[own_idx]

\* Agent_Multi.learn, from the target actors' forward passes to critic_value;
\* ags maps every agent to its attributes, samples_n[k] is the batch fetched
\* from agents_list[k]
Agent_Multi_learn_evaluate(ags, self, agents_list, own_idx, samples_n) ==
    LET N == Len(agents_list)
        B == DOMAIN samples_n[own_idx].obs
        state_t == [p \in B |-> [k \in 1 .. N |-> AsInput(samples_n[k].obs[p])]]
        new_state_t ==
            [p \in B |-> [k \in 1 .. N |-> AsInput(samples_n[k].obs_next[p])]]
        target_next_action_n ==
            [k \in 1 .. N |->
                [p \in B |-> actor_forward(ags[agents_list[k]].target_actor,
                                           samples_n[k].obs_next[p])]]
        own_next_action == target_next_action_n[own_idx]
        other_next_actions == CatDim0(RemoveAt(target_next_action_n, own_idx))
        input_target_value_fn ==
            [p \in B |-> new_state_t[p] \o <<other_next_actions[p]>>]
        target_critic_next_value ==
            [p \in B |-> critic_forward(ags[self].target_critic,
                                        input_target_value_fn[p], own_next_action[p])]
        actual_action_n ==
            [k \in 1 .. N |-> [p \in B |-> AsInput(samples_n[k].actions[p])]]
        own_actual_action == actual_action_n[own_idx]
        other_actual_actions == CatDim0(RemoveAt(actual_action_n, own_idx))
        input_value_fn ==
            [p \in B |-> state_t[p] \o <<other_actual_actions[p]>>]
        rwd_n_t == [k \in 1 .. N |-> samples_n[k].rewards]
        done_n_t == [k \in 1 .. N |-> samples_n[k].terminal]
    IN [ target_value |->
            [p \in B |-> td_target(own_of(rwd_n_t, own_idx)[p],
                                   target_critic_next_value[p],
                                   own_of(done_n_t, own_idx)[p])],
         critic_value |->
            [p \in B |-> GammaDen * critic_forward(ags[self].critic,
                                                   input_value_fn[p],
                                                   own_actual_action[p])],
         input_value_fn |-> input_value_fn,
         own_actual_action |-> own_actual_action ]

\* mutant: every agent that exists is synchronised
learn_sync_all(ags, self) ==
    [j \in DOMAIN ags |->
        IF ags[j] = NoAgent THEN ags[j]
        ELSE _update_network_parameters(ags[j], TauArgNone)]

\* self._update_network_parameters() at the end of learn: ags maps every agent
\* to its attributes
learn_sync(ags, self) ==
    [ags EXCEPT ![self] = _update_network_parameters(@, TauArgNone)]

\* mutant: the optimizer was built over the target critic's parameters as well
learn_critic_step_alsotarget(ag, fr) ==
    LET grad == critic_grad(fr.target_value, fr.critic_value,
                            fr.input_value_fn, fr.own_actual_action)
    IN [ag EXCEPT !.critic = adam_step(@, grad),
                  !.target_critic = adam_step(@, grad),
                  !.critic_optimizer.step = @ + 1,
                  !.training.critic = FALSE]

\* mutant: the critic is left in training mode after its step
learn_critic_step_staystraining(ag, fr) ==
    LET grad == critic_grad(fr.target_value, fr.critic_value,
                            fr.input_value_fn, fr.own_actual_action)
    IN [ag EXCEPT !.critic = adam_step(@, grad),
                  !.critic_optimizer.step = @ + 1,
                  !.training.critic = TRUE]

\* learn, from self.critic.train() to the second self.critic.eval(): one step
\* of the critic's optimizer on mse_loss(target_value, critic_value)
learn_critic_step(ag, fr) ==
    LET grad == critic_grad(fr.target_value, fr.critic_value,
                            fr.input_value_fn, fr.own_actual_action)
    IN [ag EXCEPT !.critic = adam_step(@, grad),
                  !.critic_optimizer.step = @ + 1,
                  !.training.critic = FALSE]

\* mutant: the actor's loss is evaluated with the target critic
learn_actor_step_targetcritic(ag, fr) ==
    LET grad == actor_grad(ag.target_critic, fr.samples[fr.own].obs)
    IN [ag EXCEPT !.actor = adam_step(@, grad),
                  !.actor_optimizer.step = @ + 1,
                  !.training.actor = TRUE]

\* mutant: the actor's optimizer holds the critic's parameters as well and
\* moves them along the gradient that backward left on them
learn_actor_step_alsocritic(ag, fr) ==
    LET grad == actor_grad(ag.critic, fr.samples[fr.own].obs)
    IN [ag EXCEPT !.actor = adam_step(@, grad),
                  !.critic = adam_step(@, [n \in DOMAIN ag.critic |-> 1]),
                  !.actor_optimizer.step = @ + 1,
                  !.training.actor = TRUE]

\* learn, from self.actor.optimizer.zero_grad() to self.actor.optimizer.step():
\* one step of the actor's optimizer on -mean(critic(input_value_fn, actor(obs)))
learn_actor_step(ag, fr) ==
    LET grad == actor_grad(ag.critic, fr.samples[fr.own].obs)
    IN [ag EXCEPT !.actor = adam_step(@, grad),
                  !.actor_optimizer.step = @ + 1,
                  !.training.actor = TRUE]

(***************************************************************************)
(* The critic inputs of Agent_Multi.learn for a team of any size.  A       *)
(* tensor of shape (rows, width) is the sequence of its rows.              *)
(***************************************************************************)
\* T.cat(tensors), joined along dim 0: the rows of the tensors one after the
\* other; an empty list raises
T_cat(tensors) ==
    IF tensors = <<>>
    THEN [ raised |-> "RuntimeError", t |-> <<>> ]
    ELSE [ raised |-> "none", t |-> CatDim0(tensors) ]

\* T.cat([a, b], dim=1): row p of a followed by row p of b; tensors with
\* different numbers of rows raise
T_cat_dim1(a, b) ==
    IF Len(a) # Len(b)
    THEN [ raised |-> "RuntimeError", t |-> <<>> ]
    ELSE [ raised |-> "none", t |-> [p \in DOMAIN a |-> a[p] \o b[p]] ]

\* T.cat(obs_n_t, dim=1) for batches of equal length
StateOf(obs_n_t) ==
    [p \in DOMAIN obs_n_t[1] |->
        [k \in DOMAIN obs_n_t |-> obs_n_t[k][p][1]]]

\* T.cat([state, T.cat(actions_n after pop(own_idx))], dim=1)
critic_input(state, actions_n, own_idx) ==
    LET others == T_cat(RemoveAt(actions_n, own_idx))
    IN IF others.raised # "none" THEN others
       ELSE T_cat_dim1(state, others.t)

\* learn from state_t to input_value_fn: the two critic inputs for the target
\* value and for the current value; batch[k] holds the tensors of the agent
\* at position k of agents_list (own_idx is a 1-based position)
learn_critic_inputs(batch, own_idx) ==
    LET N == Len(batch)
        state_t == StateOf([k \in 1 .. N |-> batch[k].obs])
        new_state_t == StateOf([k \in 1 .. N |-> batch[k].obs_next])
        target_next_action_n == [k \in 1 .. N |-> batch[k].target_next_action]
        actual_action_n_t == [k \in 1 .. N |-> batch[k].actions]
        input_target_value_fn ==
            critic_input(new_state_t, target_next_action_n, own_idx)
        input_value_fn == critic_input(state_t, actual_action_n_t, own_idx)
    IN IF input_target_value_fn.raised # "none"
       THEN [ raised |-> input_target_value_fn.raised ]
       ELSE IF input_value_fn.raised # "none"
       THEN [ raised |-> input_value_fn.raised ]
       ELSE [ raised                |-> "none",
              input_target_value_fn |-> input_target_value_fn.t,
              own_next_action       |-> target_next_action_n[own_idx],
              input_value_fn        |-> input_value_fn.t,
              own_actual_action     |-> actual_action_n_t[own_idx] ]

(***************************************************************************)
(* reduce_noise_sigma                                                      *)
(***************************************************************************)
\* the attributes Agent_Multi.__init__ assigns to self
AgentAttributes ==
    { "init_dict", "noise_sigma", "noise_theta", "calculate_grad_norms",
      "agent_type", "action_space", "scale", "shift", "gamma", "tau", "memory",
      "batch_size", "actor", "critic", "target_actor", "target_critic",
      "noise", "writer", "global_step", "episode_counter" }

\* action_space.shape of the agents: one action
ActionShape == 1

\* the product of two rates, as *= forms it
RateTimes(r, f) == Rate(r.num * f.num, r.den * f.den)

\* OUActionNoise(mu=np.zeros(shape), sigma, theta, dt=1/5.): x0 is None, so
\* the constructor's reset leaves x_prev at zero
OUActionNoise_zeros(shape, sigma, theta) ==
    [ mu_shape |-> shape, sigma |-> sigma, theta |-> theta,
      dt |-> Rate(DtNum, DtDen), x_prev |-> OUActionNoise_reset ]

\* OUActionNoise.reset of a source built without x0
noise_reset_zeros(noise) == [noise EXCEPT !.x_prev = OUActionNoise_reset]

\* an agent as the constructor leaves it, with the attributes that
\* reduce_noise_sigma reads: self.noise_sigma, self.noise_theta, self.noise
Agent_with_noise(ag, noise_sigma, noise_theta) ==
    [ attrs |-> AgentAttributes, agent |-> ag,
      noise_sigma |-> noise_sigma, noise_theta |-> noise_theta,
      noise |-> OUActionNoise_zeros(ActionShape, noise_sigma, noise_theta) ]

\* Agent_Multi.reduce_noise_sigma: both settings are multiplied, then
\* self.own_actions is read for the new noise source; reading an attribute the
\* object does not have raises AttributeError before self.noise is assigned
reduce_noise_sigma(self, sigma_factor, theta_factor) ==
    LET s == [self EXCEPT !.noise_sigma = RateTimes(@, sigma_factor),
                          !.noise_theta = RateTimes(@, theta_factor)]
    IN IF "own_actions" \notin s.attrs
       THEN [ raised |-> "AttributeError", self |-> s ]
       ELSE [ raised |-> "none",
              self |-> [s EXCEPT !.noise =
                          noise_reset_zeros(
                              OUActionNoise_zeros(s.own_actions, s.noise_sigma,
                                                  s.noise_theta))] ]

(***************************************************************************)
(* save_models, init_from_save                                             *)
(***************************************************************************)
\* the names the module binds with its import statements
ModuleNames == {"os", "Path", "Box", "T", "nn", "F", "optim", "np", "SummaryWriter"}

\* the names checkpoints are written under
Filenames == {"agent_a", "agent_b"}

NoFile == [kind |-> "no file"]

NoPersist == [op |-> "none"]

\* self.init_dict: the arguments the constructor was called with; Agent_Single
\* takes no peer shapes
init_dict(ag) ==
    IF ag.cls = "Agent_Multi"
    THEN [ own_input_shape      |-> 1,
           action_space         |-> ActionSpace,
           tau                  |-> ag.tau,
           other_input_shapes   |-> <<1>>,
           other_actions_shapes |-> <<1>>,
           gamma                |-> Rate(GammaNum, GammaDen),
           max_size             |-> ag.memory.mem_size,
           batch_size           |-> ag.batch_size,
           noise_sigma          |-> Rate(SigmaNum, SigmaDen),
           noise_theta          |-> Rate(ThetaNum, ThetaDen) ]
    ELSE [ own_input_shape      |-> 1,
           action_space         |-> ActionSpace,
           tau                  |-> ag.tau,
           gamma                |-> Rate(GammaNum, GammaDen),
           max_size             |-> ag.memory.mem_size,
           batch_size           |-> ag.batch_size,
           noise_sigma          |-> Rate(SigmaNum, SigmaDen),
           noise_theta          |-> Rate(ThetaNum, ThetaDen) ]

\* the dictionary save_models builds
agent_networks_state_dict(ag) ==
    [ init_dict        |-> init_dict(ag),
      actor            |-> ag.actor,
      critic           |-> ag.critic,
      target_actor     |-> ag.target_actor,
      target_critic    |-> ag.target_critic,
      actor_optimizer  |-> ag.actor_optimizer,
      critic_optimizer |-> ag.critic_optimizer ]

\* torch.save(obj, f) called with the positional arguments args: f is
\* required, without it the call raises TypeError before anything is written
torch_save(args, files) ==
    IF Len(args) < 2
    THEN [ raised |-> "TypeError", files |-> files ]
    ELSE [ raised |-> "none",
           files  |-> [files EXCEPT ![args[2]] = [kind |-> "blob", obj |-> args[1]]] ]

\* save_models(filename): the dictionary is the only argument T.save is given
save_models(ag, filename, files) ==
    torch_save(<<agent_networks_state_dict(ag)>>, files)

\* cls(**init_dict) followed by the six load_state_dict calls
instance_from(cls, save_dict) ==
    [ AgentFields(cls,
                  IF "other_input_shapes" \in DOMAIN save_dict.init_dict THEN 3 ELSE 1,
                  save_dict.actor, save_dict.critic,
                  save_dict.target_actor, save_dict.target_critic)
        EXCEPT !.tau = save_dict.init_dict.tau,
               !.batch_size = save_dict.init_dict.batch_size,
               !.actor_optimizer = save_dict.actor_optimizer,
               !.critic_optimizer = save_dict.critic_optimizer ]

\* init_from_save(filename) on the class cls: its first statement looks up the
\* name torch
init_from_save(cls, filename, files) ==
    IF "torch" \notin ModuleNames
    THEN [ raised |-> "NameError", instance |-> NoAgent ]
    ELSE IF files[filename] = NoFile
    THEN [ raised |-> "FileNotFoundError", instance |-> NoAgent ]
    ELSE [ raised |-> "none", instance |-> instance_from(cls, files[filename].obj) ]

(***************************************************************************)
(* JsbSimEnv.step                                                          *)
(***************************************************************************)
\* self.action_names, from action_variables
action_names ==
    << "fcs/aileron-cmd-norm", "fcs/elevator-cmd-norm",
       "fcs/rudder-cmd-norm", "fcs/throttle-cmd-norm" >>

\* self.sim before reset has made the simulator
NoSim == [kind |-> "None"]

\* the simulator reset makes, by its command properties
JsbSimInstance ==
    [ kind |-> "JsbSimInstance",
      prop |-> [k \in 1 .. Len(action_names) |-> 0] ]

\* the assert statement given the parenthesised pair (condition, message): it
\* tests the pair, and a tuple is false only when it is empty
step_assert(action) ==
    LET asserted == << Len(action) = Len(action_names),
                       "mismatch between action and action space size" >>
    IN Len(asserted) > 0

\* for var, command in zip(self.action_names, action): self.sim[var] = command
\* zip stops at the end of the shorter of the two
step_input_actions(sim, action) ==
    LET n == IF Len(action) < Len(action_names) THEN Len(action)
             ELSE Len(action_names)
    IN [sim EXCEPT !.prop = [k \in DOMAIN sim.prop |->
                                IF k <= n THEN action[k] ELSE sim.prop[k]]]

\* step(action), action a one-dimensional array that is not empty; without a
\* simulator the first assignment raises
step(sim, action) ==
    IF ~step_assert(action)
    THEN [ raised |-> "AssertionError", sim |-> sim ]
    ELSE IF sim = NoSim
    THEN [ raised |-> "TypeError", sim |-> sim ]
    ELSE [ raised |-> "none", sim |-> step_input_actions(sim, action) ]

(***************************************************************************)
(* ReplayBuffer with slots that are vectors                                *)
(***************************************************************************)
\* input_shape = (VecInputs,) and actions_shape = (VecActions,)
VecInputs == 2

VecActions == 2

\* ReplayBuffer(max_size, input_shape, actions_shape)
ReplayBufferVec(max_size) ==
    [ mem_size        |-> max_size,
      mem_cntr        |-> 0,
      obs_memory      |-> [i \in 0 .. max_size - 1 |-> [k \in 1 .. VecInputs |-> 0]],
      obs_next_memory |-> [i \in 0 .. max_size - 1 |-> [k \in 1 .. VecInputs |-> 0]],
      action_memory   |-> [i \in 0 .. max_size - 1 |-> [k \in 1 .. VecActions |-> 0]],
      reward_memory   |-> [i \in 0 .. max_size - 1 |-> 0],
      terminal_memory |-> [i \in 0 .. max_size - 1 |-> 0] ]

\* memory[index] = value for a row of n numbers: numpy broadcasts value to the
\* row, so a value of one number fills it, and any other length that is not n
\* raises ValueError
row_assign(value, n) ==
    IF Len(value) = n THEN [ raised |-> "none", row |-> value ]
    ELSE IF Len(value) = 1
    THEN [ raised |-> "none", row |-> [k \in 1 .. n |-> value[1]] ]
    ELSE [ raised |-> "ValueError", row |-> <<>> ]

\* store_transition, statement by statement: an assignment that raises leaves
\* the earlier assignments of the call in place
store_transition_vec(buf, obs, action, reward, obs_next, done) ==
    LET index == buf.mem_cntr % buf.mem_size
        o  == row_assign(obs, VecInputs)
        o2 == row_assign(obs_next, VecInputs)
        a  == row_assign(action, VecActions)
        b1 == [buf EXCEPT !.obs_memory[index] = o.row]
        b2 == [b1 EXCEPT !.obs_next_memory[index] = o2.row]
        b3 == [b2 EXCEPT !.action_memory[index] = a.row]
    IN IF o.raised # "none" THEN [ raised |-> o.raised, buf |-> buf ]
       ELSE IF o2.raised # "none" THEN [ raised |-> o2.raised, buf |-> b1 ]
       ELSE IF a.raised # "none" THEN [ raised |-> a.raised, buf |-> b2 ]
       ELSE [ raised |-> "none",
              buf |-> [b3 EXCEPT !.reward_memory[index] = reward,
                                 !.terminal_memory[index] = OneMinus(done),
                                 !.mem_cntr = @ + 1] ]

(***************************************************************************)
(* train() of testMultiAgent_eee.py.  The environment and the trainers are *)
(* its collaborators: the model keeps the calls train makes on them.       *)
(***************************************************************************)
\* arglist.num_episodes is drawn from 1 .. MaxEpisodes
MaxEpisodes == 3

\* the step of an episode at which the environment's is_terminal() ends it at
\* the latest (setup_env hands the environment its episode time)
MaxEpisodeSteps == 3

\* arglist.testing_iters and arglist.save_rate
TestingIters == 2

SaveRate == 2

\* the observations of the reset numbered at, or of the environment step
\* numbered at
Observed(from, at) == [from |-> from, at |-> at]

\* train() from its first statement to the head of the loop: the reward
\* lists, the first reset and reset_notifier on every trainer, the counters
train_start(num_episodes) ==
    [ pc               |-> "action",
      num_episodes     |-> num_episodes,
      episode_rewards  |-> <<0>>,
      agent_rewards    |-> [i \in DOMAIN Trainers |-> <<0>>],
      final_ep_rewards |-> 0,
      obs_n            |-> Observed("reset", 1),
      action_n         |-> Observed("none", 0),
      new_obs_n        |-> Observed("none", 0),
      done_n           |-> [i \in DOMAIN Trainers |-> FALSE],
      terminal         |-> FALSE,
      episode_step     |-> 0,
      episode_counter  |-> 0,
      train_step       |-> 0,
      k                |-> 0,
      env_resets       |-> 1,
      notified         |-> [i \in DOMAIN Trainers |-> 1],
      given            |-> [i \in DOMAIN Trainers |-> <<>>],
      updated          |-> [i \in DOMAIN Trainers |-> 0],
      tests            |-> 0 ]

\* action_n = [agent.action(obs, add_exploration_noise=True) ...]: the actions
\* are computed from obs_n
train_action(tr) ==
    [tr EXCEPT !.action_n = tr.obs_n, !.pc = "step"]

\* training_env.step(action_n), episode_step += 1, is_terminal()
train_env_step(tr, done_n, terminal) ==
    [tr EXCEPT !.new_obs_n = Observed("step", tr.train_step + 1),
               !.done_n = done_n,
               !.terminal = terminal,
               !.episode_step = @ + 1,
               !.pc = "experience",
               !.k = 1]

\* mutant: every transition goes to the first trainer
train_process_experience_first(tr) ==
    [tr EXCEPT !.given[1] = Append(@, [ step |-> tr.train_step + 1,
                                        obs |-> tr.obs_n,
                                        action |-> tr.action_n,
                                        new_obs |-> tr.new_obs_n ]),
               !.k = @ + 1,
               !.pc = IF tr.k = Len(Trainers) THEN "rewards" ELSE "experience"]

\* agent.process_experience(obs_n[i], action_n[i], rew_n[i], new_obs_n[i],
\* done_n[i], terminal) for the trainer at position k of the comprehension
train_process_experience(tr) ==
    [tr EXCEPT !.given[tr.k] = Append(@, [ step |-> tr.train_step + 1,
                                           obs |-> tr.obs_n,
                                           action |-> tr.action_n,
                                           new_obs |-> tr.new_obs_n ]),
               !.k = @ + 1,
               !.pc = IF tr.k = Len(Trainers) THEN "rewards" ELSE "experience"]

\* mutant: the episode is over only when every agent is done
train_episode_over_all(tr) ==
    (\A i \in DOMAIN Trainers : tr.done_n[i]) \/ tr.terminal

\* done or terminal, done = any(done_n)
train_episode_over(tr) ==
    (\E i \in DOMAIN Trainers : tr.done_n[i]) \/ tr.terminal

\* list[-1] += x
AddToLast(list, x) == [list EXCEPT ![Len(list)] = @ + x]

\* from obs_n = new_obs_n to the benchmark run: every agent's reward (1 each)
\* is added to the running sums; if the episode is over the environment is
\* reset, every trainer is notified and the lists get a new entry; train_step
\* is counted and every TestingIters steps the trainers are evaluated
train_bookkeeping(tr) ==
    LET over == train_episode_over(tr)
        summed == AddToLast(tr.episode_rewards, Len(Trainers))
        train_step == tr.train_step + 1
    IN [tr EXCEPT
          !.obs_n = IF over THEN Observed("reset", tr.env_resets + 1)
                    ELSE tr.new_obs_n,
          !.episode_rewards = IF over THEN Append(summed, 0) ELSE summed,
          !.agent_rewards =
              [i \in DOMAIN Trainers |->
                  IF over THEN Append(AddToLast(tr.agent_rewards[i], 1), 0)
                  ELSE AddToLast(tr.agent_rewards[i], 1)],
          !.episode_counter = IF over THEN @ + 1 ELSE @,
          !.env_resets = IF over THEN @ + 1 ELSE @,
          !.notified = [i \in DOMAIN Trainers |-> IF over THEN @[i] + 1 ELSE @[i]],
          !.episode_step = IF over THEN 0 ELSE @,
          !.train_step = train_step,
          !.tests = IF train_step % TestingIters = 0 THEN @ + 1 ELSE @,
          !.pc = "update",
          !.k = 1]

\* agent.update(trainers, train_step, own_idx) for the trainer at position k
\* (the preupdate calls come before the first of them)
train_update(tr) ==
    [tr EXCEPT !.updated[tr.k] = @ + 1,
               !.k = @ + 1,
               !.pc = IF tr.k = Len(Trainers) THEN "finish" ELSE "update"]

\* mutant: the loop is left one episode early
train_finished_early(tr) == Len(tr.episode_rewards) >= tr.num_episodes

\* len(episode_rewards) > arglist.num_episodes
train_finished(tr) == Len(tr.episode_rewards) > tr.num_episodes

\* the end of an iteration: the training curve gets an entry every SaveRate
\* episodes that end by terminal, and the loop is left by break
train_end_of_iteration(tr) ==
    [tr EXCEPT
        !.final_ep_rewards =
            IF tr.terminal /\ Len(tr.episode_rewards) % SaveRate = 0
            THEN @ + 1 ELSE @,
        !.pc = IF train_finished(tr) THEN "done" ELSE "action"]

(***************************************************************************)
(* State                                                                   *)
(***************************************************************************)
VARIABLES
    rb,         \* a ReplayBuffer used on its own
    rb_calls,   \* the arguments of the store_transition calls made on rb, in order
    rb_ret,     \* what the last call on rb returned
    agents,     \* the attributes of every agent (NoAgent before its construction)
    frame,      \* the running learn call: where it stands, its local variables,
                \* and (entry) the agent's attributes as the call found them
    ou,         \* an OUActionNoise used on its own, and what was last done with it
    sync,       \* one parameter of a float32 online network and of its target,
                \* and _update_network_parameters applied to the pair
    disk,       \* the files torch.save has written, by name
    persist,    \* the last save_models or init_from_save call and its outcome
    env,        \* a JsbSimEnv: its simulator and the last step call
    vecbuf,     \* a ReplayBuffer with vector slots and the last store_transition
    train,      \* train(): its position, its local variables and the calls it
                \* has made on the environment and on the trainers
    tuned,      \* an agent's noise settings and the last reduce_noise_sigma call
    joint       \* the batches of a team and the critic inputs learn builds of them

rbvars == <<rb, rb_calls, rb_ret>>

agentvars == <<agents, frame>>

\* the components exercised on their own
alonevars == <<ou, sync>>

filevars == <<disk, persist>>

shapevars == <<env, vecbuf>>

loopvars == <<train, tuned, joint>>

vars ==
    << rb, rb_calls, rb_ret, agents, frame, ou, sync, disk, persist, env, vecbuf,
       train, tuned, joint >>

NoReturn == [op |-> "none"]

\* no learn call is running
Idle == [at |-> "idle"]

RbInit ==
    /\ rb = ReplayBuffer(MemSize)
    /\ rb_calls = <<>>
    /\ rb_ret = NoReturn

AgentInit ==
    /\ agents = [i \in Agents |-> NoAgent]
    /\ frame = Idle

\* no parameter pair is under study
NoSync == [at |-> "none"]

\* no noise source is under study
NoNoise == [op |-> "none"]

AloneInit ==
    /\ ou = NoNoise
    /\ sync = NoSync

FileInit ==
    /\ disk = [f \in Filenames |-> NoFile]
    /\ persist = NoPersist

NoCall == [op |-> "none"]

ShapeInit ==
    /\ env = [ sim |-> NoSim, steps |-> 0, last |-> NoCall ]
    /\ vecbuf = [ buf |-> ReplayBufferVec(MemSize), stores |-> 0, last |-> NoCall ]

NoTrain == [pc |-> "none"]

NoTune == [op |-> "none"]

NoJoint == [op |-> "none"]

LoopInit ==
    /\ train = NoTrain
    /\ tuned = NoTune
    /\ joint = NoJoint

Init == RbInit /\ AgentInit /\ AloneInit /\ FileInit /\ ShapeInit /\ LoopInit

(***************************************************************************)
(* The three operations of a ReplayBuffer, called directly                 *)
(***************************************************************************)
RbStoreTransition(t) ==
    /\ rb.mem_cntr < MaxStores
    /\ rb' = store_transition(rb, t.obs, t.action, t.reward, t.obs_next, t.done)
    /\ rb_calls' = Append(rb_calls, t)
    /\ rb_ret' = [op |-> "store_transition"]
    /\ UNCHANGED <<agentvars, alonevars, filevars, shapevars, loopvars>>

RbGetBatchIdxs ==
    /\ IF get_batch_idxs(rb, BatchSize) = {}
       THEN rb_ret' = [op |-> "get_batch_idxs", raised |-> "ValueError"]
       ELSE \E idxs \in get_batch_idxs(rb, BatchSize) :
               rb_ret' = [op |-> "get_batch_idxs", batch_idxs |-> idxs]
    /\ UNCHANGED <<rb, rb_calls>>
    /\ UNCHANGED <<agentvars, alonevars, filevars, shapevars, loopvars>>

RbGetSamples(idxs) ==
    /\ rb_ret' = [op |-> "get_samples_from_buffer", batch_idxs |-> idxs,
                  samples |-> get_samples_from_buffer(rb, idxs)]
    /\ UNCHANGED <<rb, rb_calls>>
    /\ UNCHANGED <<agentvars, alonevars, filevars, shapevars, loopvars>>

BufferNext ==
    \/ \E t \in StoreInputs : RbStoreTransition(t)
    \/ RbGetBatchIdxs
    \/ \E idxs \in [1 .. BatchSize -> Slots] : RbGetSamples(idxs)

SpecBuffer == Init /\ [][BufferNext]_vars

(***************************************************************************)
(* The operations of the agents.  The program is single-threaded: while a  *)
(* learn call runs, nothing else does.                                     *)
(***************************************************************************)
\* the observations the agents are asked to act on
Observations == {1, 2}

\* the transitions the agents are given to remember
RememberInputs ==
    { Transition(1, 1, 1, 2, FALSE), Transition(2, 1, 2, 1, TRUE) }

\* remember calls explored per agent
AgentMaxStores == MemSize

Constructed(i) == agents[i].cls # "None"

NewAgentMulti(i) ==
    /\ frame = Idle
    /\ ~Constructed(i)
    /\ \E online \in NetworkInits, target \in NetworkInits :
          agents' = [agents EXCEPT
                        ![i] = Agent_Multi_init(online.actor, online.critic,
                                                target.actor, target.critic)]
    /\ UNCHANGED frame
    /\ UNCHANGED <<rbvars, alonevars, filevars, shapevars, loopvars>>

NewAgentSingle(i) ==
    /\ frame = Idle
    /\ ~Constructed(i)
    /\ \E online \in NetworkInits, target \in NetworkInits :
          agents' = [agents EXCEPT
                        ![i] = Agent_Single_init(online.actor, online.critic,
                                                 target.actor, target.critic)]
    /\ UNCHANGED frame
    /\ UNCHANGED <<rbvars, alonevars, filevars, shapevars, loopvars>>

Remember(i, t) ==
    /\ frame = Idle
    /\ Constructed(i)
    /\ agents[i].memory.mem_cntr < AgentMaxStores
    /\ agents' = [agents EXCEPT ![i] = remember(agents[i], t)]
    /\ UNCHANGED frame
    /\ UNCHANGED <<rbvars, alonevars, filevars, shapevars, loopvars>>

\* choose_action: the actor goes to eval mode and back to training mode; with
\* add_exploration_noise the noise source is sampled once
ChooseAction(i, observation, add_exploration_noise, w) ==
    /\ frame = Idle
    /\ Constructed(i)
    /\ add_exploration_noise => agents[i].noise_samples < MaxNoise
    /\ agents' = [agents EXCEPT
                     ![i] = choose_action(@, observation,
                                          add_exploration_noise, w).agent]
    /\ UNCHANGED frame
    /\ UNCHANGED <<rbvars, alonevars, filevars, shapevars, loopvars>>

\* reset_noise_source
ResetNoiseSource(i) ==
    /\ frame = Idle
    /\ Constructed(i)
    /\ agents' = [agents EXCEPT ![i].x_prev = OUActionNoise_reset,
                                ![i].noise_samples = 0]
    /\ UNCHANGED frame
    /\ UNCHANGED <<rbvars, alonevars, filevars, shapevars, loopvars>>

\* learn(agents_list, own_idx) up to the fetch: the guard, one index batch from
\* the own buffer, and with it the batch of the own buffer (Agent_Single) or
\* of every agent of agents_list (Agent_Multi)
LearnCall(i, agents_list, own_idx) ==
    /\ frame = Idle
    /\ Constructed(i)
    /\ \A k \in DOMAIN agents_list : Constructed(agents_list[k])
    /\ IF learn_returns_early(agents[i])
       THEN /\ frame' = [at |-> "returned", who |-> i, updated |-> FALSE]
            /\ UNCHANGED agents
       ELSE /\ agents[i].critic_optimizer.step < MaxLearns
            /\ \E batch_idxs \in get_batch_idxs(agents[i].memory, agents[i].batch_size) :
                  frame' =
                    [ at |-> "fetched", who |-> i, entry |-> agents[i],
                      agents_list |-> agents_list, own_idx |-> own_idx,
                      batch_idxs |-> batch_idxs,
                      own |-> IF agents[i].cls = "Agent_Single" THEN 1 ELSE own_idx,
                      samples |->
                        IF agents[i].cls = "Agent_Single"
                        THEN << get_samples_from_buffer(agents[i].memory, batch_idxs) >>
                        ELSE learn_fetch(agents, agents_list, batch_idxs) ]
            /\ UNCHANGED agents
    /\ UNCHANGED <<rbvars, alonevars, filevars, shapevars, loopvars>>

\* learn: the networks go to eval mode (of the own agent, or of every agent of
\* agents_list), then target_value and critic_value are computed
LearnEvaluate ==
    /\ frame.at = "fetched"
    /\ LET i == frame.who
           single == agents[i].cls = "Agent_Single"
           switched ==
             [j \in Agents |->
                IF (single /\ j = i)
                   \/ (~single /\ \E k \in DOMAIN frame.agents_list :
                                       frame.agents_list[k] = j)
                THEN learn_eval_modes(agents[j]) ELSE agents[j]]
           raised ==
             IF single THEN "none"
             ELSE learn_raises(agents[i], frame.agents_list, Len(frame.batch_idxs))
           values ==
             IF single
             THEN Agent_Single_learn_evaluate(agents[i], frame.samples[1])
             ELSE Agent_Multi_learn_evaluate(agents, i, frame.agents_list,
                                             frame.own_idx, frame.samples)
       IN /\ agents' = switched
          /\ frame' =
               IF raised # "none"
               THEN [ at |-> "raised", who |-> i, raised |-> raised,
                      entry |-> frame.entry,
                      agents_list |-> frame.agents_list,
                      own_idx |-> frame.own_idx ]
               ELSE [ at |-> "evaluated", who |-> i, entry |-> frame.entry,
                      agents_list |-> frame.agents_list,
                      own_idx |-> frame.own_idx,
                      batch_idxs |-> frame.batch_idxs,
                      own |-> frame.own,
                      samples |-> frame.samples,
                      target_value |-> values.target_value,
                      critic_value |-> values.critic_value,
                      input_value_fn |-> values.input_value_fn,
                      own_actual_action |-> values.own_actual_action ]
    /\ UNCHANGED <<rbvars, alonevars, filevars, shapevars, loopvars>>

LearnCriticStep ==
    /\ frame.at = "evaluated"
    /\ agents' = [agents EXCEPT ![frame.who] = learn_critic_step(@, frame)]
    /\ frame' = [frame EXCEPT !.at = "critic_stepped"]
    /\ UNCHANGED <<rbvars, alonevars, filevars, shapevars, loopvars>>

LearnActorStep ==
    /\ frame.at = "critic_stepped"
    /\ agents' = [agents EXCEPT ![frame.who] = learn_actor_step(@, frame)]
    /\ frame' = [frame EXCEPT !.at = "actor_stepped"]
    /\ UNCHANGED <<rbvars, alonevars, filevars, shapevars, loopvars>>

\* learn's last statement, self._update_network_parameters()
LearnSync ==
    /\ frame.at = "actor_stepped"
    /\ agents' = learn_sync(agents, frame.who)
    /\ frame' = [ at |-> "returned", who |-> frame.who, updated |-> TRUE,
                  entry |-> frame.entry, agents_list |-> frame.agents_list,
                  batch_idxs |-> frame.batch_idxs,
                  own |-> frame.own, samples |-> frame.samples ]
    /\ UNCHANGED <<rbvars, alonevars, filevars, shapevars, loopvars>>

\* control is back with the caller of learn
LearnReturn ==
    /\ frame.at = "returned"
    /\ frame' = Idle
    /\ UNCHANGED agents
    /\ UNCHANGED <<rbvars, alonevars, filevars, shapevars, loopvars>>

Next ==
    \/ \E i \in Agents : NewAgentMulti(i)
    \/ \E i \in Agents : NewAgentSingle(i)
    \/ \E i \in Agents, t \in RememberInputs : Remember(i, t)
    \/ \E i \in Agents, obs \in Observations, noise \in BOOLEAN, w \in NormalDraws :
          ChooseAction(i, obs, noise, w)
    \/ \E i \in Agents : ResetNoiseSource(i)
    \/ \E i \in Agents : LearnCall(i, Trainers, i)
    \/ LearnEvaluate
    \/ LearnCriticStep
    \/ LearnActorStep
    \/ LearnSync
    \/ LearnReturn

Spec == Init /\ [][Next]_vars

(***************************************************************************)
(* Agents whose learn is handed any list of agents                         *)
(***************************************************************************)
\* the lists learn is called with: the trainers in their order, in the other
\* order, one of them alone, and three
TeamLists == { <<1, 2>>, <<2, 1>>, <<1>>, <<1, 2, 1>> }

\* an Agent_Multi constructed without peers
NewAgentMultiAlone(i) ==
    /\ frame = Idle
    /\ ~Constructed(i)
    /\ \E online \in NetworkInits, target \in NetworkInits :
          agents' = [agents EXCEPT
                        ![i] = Agent_Multi_init_default(online.actor, online.critic,
                                                        target.actor, target.critic)]
    /\ UNCHANGED frame
    /\ UNCHANGED <<rbvars, alonevars, filevars, shapevars, loopvars>>

\* the exception learn raised leaves the call
LearnRaised ==
    /\ frame.at = "raised"
    /\ frame' = Idle
    /\ UNCHANGED agents
    /\ UNCHANGED <<rbvars, alonevars, filevars, shapevars, loopvars>>

TeamNext ==
    \/ \E i \in Agents : NewAgentMulti(i)
    \/ \E i \in Agents : NewAgentMultiAlone(i)
    \/ \E i \in Agents : NewAgentSingle(i)
    \/ \E i \in Agents, t \in RememberInputs : Remember(i, t)
    \/ \E i \in Agents, agents_list \in TeamLists :
          \E own_idx \in DOMAIN agents_list : LearnCall(i, agents_list, own_idx)
    \/ LearnEvaluate
    \/ LearnCriticStep
    \/ LearnActorStep
    \/ LearnSync
    \/ LearnReturn
    \/ LearnRaised

SpecTeam == Init /\ [][TeamNext]_vars

(***************************************************************************)
(* Agents that are saved and restored                                      *)
(***************************************************************************)
AgentClasses == {"Agent_Multi", "Agent_Single"}

\* save_models(filename) on agent i
SaveModels(i, filename) ==
    /\ frame = Idle
    /\ Constructed(i)
    /\ LET r == save_models(agents[i], filename, disk)
       IN /\ disk' = r.files
          /\ persist' = [ op |-> "save_models", who |-> i, filename |-> filename,
                          raised |-> r.raised ]
    /\ UNCHANGED <<rbvars, agentvars, alonevars, shapevars, loopvars>>

\* cls.init_from_save(filename); after is the agent whose save_models(filename)
\* was the call just before this one (0 if there was none)
InitFromSave(cls, filename) ==
    /\ frame = Idle
    /\ LET r == init_from_save(cls, filename, disk)
       IN persist' = [ op |-> "init_from_save", cls |-> cls, filename |-> filename,
                       after |-> IF persist.op = "save_models"
                                        /\ persist.filename = filename
                                 THEN persist.who ELSE 0,
                       raised |-> r.raised, instance |-> r.instance ]
    /\ UNCHANGED disk
    /\ UNCHANGED <<rbvars, agentvars, alonevars, shapevars, loopvars>>

PersistNext ==
    \/ \E i \in Agents : NewAgentMulti(i)
    \/ \E i \in Agents : NewAgentSingle(i)
    \/ \E i \in Agents, t \in RememberInputs : Remember(i, t)
    \/ \E i \in Agents : LearnCall(i, Trainers, i)
    \/ LearnEvaluate
    \/ LearnCriticStep
    \/ LearnActorStep
    \/ LearnSync
    \/ LearnReturn
    \/ \E i \in Agents, f \in Filenames : SaveModels(i, f)
    \/ \E cls \in AgentClasses, f \in Filenames : InitFromSave(cls, f)

SpecPersist == Init /\ [][PersistNext]_vars

(***************************************************************************)
(* An environment and a buffer that are handed vectors of any length       *)
(***************************************************************************)
\* step calls explored; store_transition calls are explored up to MaxStores
MaxSteps == 2

\* the arrays step is called with
StepActions == { <<1, 1, 1>>, <<1, 2, 1, 2>>, <<2, 2, 2, 2>>, <<2, 1, 2, 1, 2>> }

\* the arrays store_transition is called with
VecValues == { <<1>>, <<1, 2>>, <<1, 2, 1>> }

\* reset(): a new simulator
EnvReset ==
    /\ env' = [env EXCEPT !.sim = JsbSimInstance, !.last = [op |-> "reset"]]
    /\ UNCHANGED vecbuf
    /\ UNCHANGED <<rbvars, agentvars, alonevars, filevars, loopvars>>

\* step(action); before is the simulator as the call found it
EnvStep(action) ==
    /\ env.steps < MaxSteps
    /\ LET r == step(env.sim, action)
       IN env' = [ sim |-> r.sim, steps |-> env.steps + 1,
                   last |-> [ op |-> "step", action |-> action,
                              raised |-> r.raised, before |-> env.sim ] ]
    /\ UNCHANGED vecbuf
    /\ UNCHANGED <<rbvars, agentvars, alonevars, filevars, loopvars>>

\* store_transition(obs, action, 1, obs_next, False); before is the buffer as
\* the call found it
VecStoreTransition(obs, action, obs_next) ==
    /\ vecbuf.stores < MaxStores
    /\ LET r == store_transition_vec(vecbuf.buf, obs, action, 1, obs_next, FALSE)
       IN vecbuf' = [ buf |-> r.buf, stores |-> vecbuf.stores + 1,
                      last |-> [ op |-> "store_transition", obs |-> obs,
                                 action |-> action, obs_next |-> obs_next,
                                 raised |-> r.raised, before |-> vecbuf.buf ] ]
    /\ UNCHANGED env
    /\ UNCHANGED <<rbvars, agentvars, alonevars, filevars, loopvars>>

ShapesNext ==
    \/ EnvReset
    \/ \E action \in StepActions : EnvStep(action)
    \/ \E obs \in VecValues, action \in VecValues, obs_next \in VecValues :
          VecStoreTransition(obs, action, obs_next)

SpecShapes == Init /\ [][ShapesNext]_vars

(***************************************************************************)
(* The training loop                                                       *)
(***************************************************************************)
TrainInit ==
    /\ RbInit
    /\ AgentInit
    /\ AloneInit
    /\ FileInit
    /\ ShapeInit
    /\ tuned = NoTune
    /\ joint = NoJoint
    /\ train \in { train_start(n) : n \in 1 .. MaxEpisodes }

TrainRest ==
    UNCHANGED <<rbvars, agentvars, alonevars, filevars, shapevars, tuned, joint>>

TrainAction ==
    /\ train.pc = "action"
    /\ train' = train_action(train)
    /\ TrainRest

\* the environment ends the episode by terminal at the latest at
\* MaxEpisodeSteps
TrainEnvStep(done_n, terminal) ==
    /\ train.pc = "step"
    /\ train.episode_step + 1 >= MaxEpisodeSteps => terminal
    /\ train' = train_env_step(train, done_n, terminal)
    /\ TrainRest

TrainProcessExperience ==
    /\ train.pc = "experience"
    /\ train' = train_process_experience(train)
    /\ TrainRest

TrainBookkeeping ==
    /\ train.pc = "rewards"
    /\ train' = train_bookkeeping(train)
    /\ TrainRest

TrainUpdate ==
    /\ train.pc = "update"
    /\ train' = train_update(train)
    /\ TrainRest

TrainEndOfIteration ==
    /\ train.pc = "finish"
    /\ train' = train_end_of_iteration(train)
    /\ TrainRest

TrainNext ==
    \/ TrainAction
    \/ \E done_n \in [DOMAIN Trainers -> BOOLEAN], terminal \in BOOLEAN :
          TrainEnvStep(done_n, terminal)
    \/ TrainProcessExperience
    \/ TrainBookkeeping
    \/ TrainUpdate
    \/ TrainEndOfIteration

SpecTrain == TrainInit /\ [][TrainNext]_vars

\* train() runs on its own thread of control until it returns
SpecTrainLive == TrainInit /\ [][TrainNext]_vars /\ WF_vars(TrainNext)

(***************************************************************************)
(* Teams of two and of three whose batches are joined                      *)
(***************************************************************************)
\* the numbers of agents in agents_list
TeamSizes == {2, 3}

\* the observations stored in the buffers
JointObs == {1, 2}

\* the batch of the agent at position k: its observations are drawn, its
\* actions, next observations and target actions are told apart by k and by
\* the sample
BatchOf(k, obs) ==
    [ obs                |-> [p \in 1 .. BatchSize |-> <<obs[p]>>],
      actions            |-> [p \in 1 .. BatchSize |-> <<10 * k + p>>],
      obs_next           |-> [p \in 1 .. BatchSize |-> <<obs[p] + 2>>],
      target_next_action |-> [p \in 1 .. BatchSize |-> <<20 * k + p>>] ]

JointInit ==
    /\ RbInit
    /\ AgentInit
    /\ AloneInit
    /\ FileInit
    /\ ShapeInit
    /\ train = NoTrain
    /\ tuned = NoTune
    /\ \E N \in TeamSizes :
          \E own_idx \in 1 .. N, obs_n \in [1 .. N -> [1 .. BatchSize -> JointObs]] :
              joint = [ op |-> "fetched", own_idx |-> own_idx,
                        batch |-> [k \in 1 .. N |-> BatchOf(k, obs_n[k])] ]

\* learn builds the critic inputs of the fetched batches
JointInputs ==
    /\ joint.op = "fetched"
    /\ joint' = [ op |-> "joined", own_idx |-> joint.own_idx,
                  batch |-> joint.batch,
                  out |-> learn_critic_inputs(joint.batch, joint.own_idx) ]
    /\ UNCHANGED <<rbvars, agentvars, alonevars, filevars, shapevars, train, tuned>>

JointNext == JointInputs

SpecJoint == JointInit /\ [][JointNext]_vars

(***************************************************************************)
(* An agent whose noise is reduced                                         *)
(***************************************************************************)
\* calls of reduce_noise_sigma on one agent
MaxTunes == 2

\* noise_sigma and noise_theta as handed to the constructor (the defaults
\* 0.15 and 0.2 and one more each)
TuneSigmas == {Rate(SigmaNum, SigmaDen), Rate(1, 10)}

TuneThetas == {Rate(ThetaNum, ThetaDen), Rate(1, 4)}

\* sigma_factor and theta_factor (1 is the default)
TuneFactors == {Rate(1, 1), Rate(1, 2), Rate(9, 10)}

\* x_prev of the agent's noise source: after a reset, after samples
TuneNoiseStates == {OUActionNoise_reset, 3}

TuneInit ==
    /\ RbInit
    /\ AgentInit
    /\ AloneInit
    /\ FileInit
    /\ ShapeInit
    /\ train = NoTrain
    /\ joint = NoJoint
    /\ \E online \in NetworkInits, sigma \in TuneSigmas, theta \in TuneThetas,
          x \in TuneNoiseStates :
          LET ag == Agent_Multi_init(online.actor, online.critic,
                                     online.actor, online.critic)
              self == Agent_with_noise(ag, sigma, theta)
          IN tuned = [ op |-> "constructed", calls |-> 0,
                       self |-> [self EXCEPT !.noise.x_prev = x] ]

\* agent.reduce_noise_sigma(sigma_factor, theta_factor); a caller that catches
\* the exception keeps the agent and may call again
ReduceNoiseSigma(sigma_factor, theta_factor) ==
    /\ tuned.op # "none"
    /\ tuned.calls < MaxTunes
    /\ LET r == reduce_noise_sigma(tuned.self, sigma_factor, theta_factor)
       IN tuned' = [ op |-> "reduced", calls |-> tuned.calls + 1,
                     before |-> tuned.self, self |-> r.self,
                     raised |-> r.raised,
                     sigma_factor |-> sigma_factor,
                     theta_factor |-> theta_factor ]
    /\ UNCHANGED <<rbvars, agentvars, alonevars, filevars, shapevars, train, joint>>

TuneNext ==
    \E sigma_factor \in TuneFactors, theta_factor \in TuneFactors :
        ReduceNoiseSigma(sigma_factor, theta_factor)

SpecTune == TuneInit /\ [][TuneNext]_vars

(***************************************************************************)
(* An OUActionNoise used on its own                                        *)
(***************************************************************************)
\* the values mu and x0 are drawn from, and the sigmas
NoiseMus == {-1, 0, 1}

NoiseX0s == {NoX0, <<-1>>, <<0>>, <<1>>}

NoiseSigmas == {Rate(0, 1), Rate(SigmaNum, SigmaDen)}

\* ou.op is what was last done; calls counts the calls made, since_reset those
\* since the last reset; start is x_prev as the last call found it, w its draw
NoiseInit ==
    /\ RbInit
    /\ AgentInit
    /\ FileInit
    /\ ShapeInit
    /\ LoopInit
    /\ sync = NoSync
    /\ \E mu \in NoiseMus, sigma \in NoiseSigmas, x0 \in NoiseX0s :
          ou = [ op |-> "init", obj |-> OUActionNoise_init(mu, sigma, x0),
                 calls |-> 0, since_reset |-> 0 ]

NoiseCall(w) ==
    /\ ou.calls < MaxCalls
    /\ LET r == noise_call(ou.obj, w)
       IN ou' = [ op |-> "call", obj |-> r.ou, ret |-> r.ret,
                  start |-> ou.obj.x_prev, w |-> w,
                  calls |-> ou.calls + 1, since_reset |-> ou.since_reset + 1 ]
    /\ UNCHANGED <<rbvars, agentvars, sync, filevars, shapevars, loopvars>>

NoiseReset ==
    /\ ou.op # "reset"
    /\ ou' = [ op |-> "reset", obj |-> noise_reset(ou.obj),
               calls |-> ou.calls, since_reset |-> 0 ]
    /\ UNCHANGED <<rbvars, agentvars, sync, filevars, shapevars, loopvars>>

NoiseNext ==
    \/ \E w \in NormalDraws : NoiseCall(w)
    \/ NoiseReset

SpecNoise == NoiseInit /\ [][NoiseNext]_vars

(***************************************************************************)
(* _update_network_parameters on one float32 parameter pair                *)
(***************************************************************************)
\* tau as handed to the constructor, in units of 1 / FineUnit: 1/4, 77/256
\* (0.3 to eight binary places) and 26/256 (0.1)
SyncTaus == {64, 77, 26}

\* the floats an online or a target parameter is drawn from, in units of
\* 1 / FineUnit
MaxParam == 48

FloatInputs == { Fl(n) : n \in (0 - MaxParam) .. MaxParam }

SyncInit ==
    /\ RbInit
    /\ AgentInit
    /\ FileInit
    /\ ShapeInit
    /\ LoopInit
    /\ ou = NoNoise
    /\ sync \in [at : {"drawn"}, tau : SyncTaus,
                 online : FloatInputs, target : FloatInputs]

\* the loops of _update_network_parameters on the pair: the target becomes the
\* blend (in units of 1 / (FineUnit * FineUnit)), the online parameter stays
SyncApply ==
    /\ sync.at = "drawn"
    /\ sync' = [ at |-> "synced", tau |-> sync.tau, online |-> sync.online,
                 target |-> sync.target,
                 target_new |-> blend_float(sync.tau, sync.online, sync.target) ]
    /\ UNCHANGED <<rbvars, agentvars, ou, filevars, shapevars, loopvars>>

SyncNext == SyncApply

SpecSync == SyncInit /\ [][SyncNext]_vars

(***************************************************************************)
(* Claims about the replay buffer (checked under SpecBuffer)               *)
(***************************************************************************)
\* the 0-based number of the latest store_transition call on rb that went to slot k
LatestCallTo(k) ==
    CHOOSE j \in 0 .. (Len(rb_calls) - 1) :
        /\ j % MemSize = k
        /\ \A j2 \in 0 .. (Len(rb_calls) - 1) : j2 % MemSize = k => j2 <= j

\* the arguments of call number j (0-based)
CallArgs(j) == rb_calls[j + 1]

FilledSlots == { k \in Slots : k < Len(rb_calls) }

\* C1: once more than mem_size transitions were stored, slot k holds the
\* transition of the latest call j with j mod mem_size = k, and that call is
\* one of the last mem_size calls.
C1_CircularOverwrite ==
    Len(rb_calls) > MemSize =>
        \A k \in Slots :
            LET j == LatestCallTo(k)
            IN /\ j >= Len(rb_calls) - MemSize
               /\ rb.obs_memory[k] = CallArgs(j).obs
               /\ rb.action_memory[k] = CallArgs(j).action
               /\ rb.reward_memory[k] = CallArgs(j).reward
               /\ rb.obs_next_memory[k] = CallArgs(j).obs_next
               /\ (rb.terminal_memory[k] = 0) = CallArgs(j).done

\* capacity exceeded by two calls, and the overwritten transition differs from
\* the one that replaced it
C1_Witness ==
    /\ Len(rb_calls) = MemSize + 2
    /\ rb_calls[1] # rb_calls[MemSize + 1]
    /\ rb.reward_memory[0] # rb_calls[1].reward

\* C2: with mem_cntr > 0, get_batch_idxs returns batch_size indices, all in
\* [0, min(mem_cntr, mem_size)); every index of that range can be drawn, also
\* batch_size times in one batch.
C2_BatchIdxsInFilledRange ==
    rb.mem_cntr > 0 =>
        /\ rb_ret.op = "get_batch_idxs" =>
              /\ "batch_idxs" \in DOMAIN rb_ret
              /\ DOMAIN rb_ret.batch_idxs = 1 .. BatchSize
              /\ \A p \in 1 .. BatchSize :
                    /\ rb_ret.batch_idxs[p] >= 0
                    /\ rb_ret.batch_idxs[p] < rb.mem_cntr
                    /\ rb_ret.batch_idxs[p] < rb.mem_size
        /\ \A k \in 0 .. (Min(rb.mem_cntr, rb.mem_size) - 1) :
              ENABLED ( /\ RbGetBatchIdxs
                        /\ rb_ret'.batch_idxs = [p \in 1 .. BatchSize |-> k] )

\* a partly filled buffer returned the same index twice
C2_Witness ==
    /\ rb.mem_cntr > 0
    /\ rb.mem_cntr < rb.mem_size
    /\ rb_ret.op = "get_batch_idxs"
    /\ "batch_idxs" \in DOMAIN rb_ret
    /\ \A p \in 1 .. BatchSize : rb_ret.batch_idxs[p] = rb.mem_cntr - 1

\* the five values a fetch returned at position p are those of call j
SampleIsCall(p, j) ==
    /\ rb_ret.samples.obs[p] = CallArgs(j).obs
    /\ rb_ret.samples.actions[p] = CallArgs(j).action
    /\ rb_ret.samples.rewards[p] = CallArgs(j).reward
    /\ rb_ret.samples.obs_next[p] = CallArgs(j).obs_next
    /\ (rb_ret.samples.terminal[p] = 0) = CallArgs(j).done

C3_SlotsWhole ==
    /\ \A k \in FilledSlots :
          \E j \in 0 .. (Len(rb_calls) - 1) :
              /\ rb.obs_memory[k] = CallArgs(j).obs
              /\ rb.action_memory[k] = CallArgs(j).action
              /\ rb.reward_memory[k] = CallArgs(j).reward
              /\ rb.obs_next_memory[k] = CallArgs(j).obs_next
              /\ (rb.terminal_memory[k] = 0) = CallArgs(j).done
    /\ rb_ret.op = "get_samples_from_buffer" =>
          /\ DOMAIN rb_ret.samples.obs = DOMAIN rb_ret.batch_idxs
          /\ \A p \in DOMAIN rb_ret.batch_idxs :
                rb_ret.batch_idxs[p] \in FilledSlots =>
                    SampleIsCall(p, LatestCallTo(rb_ret.batch_idxs[p]))

\* C3: the five values of a filled slot come from one store_transition call,
\* get_samples_from_buffer returns at position p the five values of slot
\* batch_idxs[p], and it leaves the buffer as it was.
C3_FieldsStayTogether ==
    /\ []C3_SlotsWhole
    /\ [][rb_ret'.op = "get_samples_from_buffer" => rb' = rb]_vars

\* a fetch from a buffer that wrapped around, of two slots holding different
\* transitions
C3_Witness ==
    /\ Len(rb_calls) > MemSize
    /\ rb_ret.op = "get_samples_from_buffer"
    /\ rb_ret.batch_idxs[1] # rb_ret.batch_idxs[2]
    /\ rb_ret.samples.obs[1] # rb_ret.samples.obs[2]
    /\ rb_ret.samples.obs_next[1] # rb_ret.samples.obs_next[2]
    /\ rb_ret.samples.rewards[1] # rb_ret.samples.rewards[2]

\* C4: the flag stored for a call is 0 when done was true and 1 when it was
\* false, in the slot the call wrote and in what a fetch returns from it.
C4_TerminalStoredInverted ==
    /\ \A k \in FilledSlots :
          rb.terminal_memory[k] =
              IF CallArgs(LatestCallTo(k)).done THEN 0 ELSE 1
    /\ rb_ret.op = "get_samples_from_buffer" =>
          \A p \in DOMAIN rb_ret.batch_idxs :
              rb_ret.batch_idxs[p] \in FilledSlots =>
                  rb_ret.samples.terminal[p] =
                      IF CallArgs(LatestCallTo(rb_ret.batch_idxs[p])).done
                      THEN 0 ELSE 1

\* a fetch returned the flag of a terminal and of a non-terminal transition
C4_Witness ==
    /\ rb_ret.op = "get_samples_from_buffer"
    /\ \A p \in DOMAIN rb_ret.batch_idxs : rb_ret.batch_idxs[p] \in FilledSlots
    /\ rb_ret.samples.terminal[1] = 0
    /\ rb_ret.samples.terminal[2] = 1
    /\ CallArgs(LatestCallTo(rb_ret.batch_idxs[1])).done
    /\ ~CallArgs(LatestCallTo(rb_ret.batch_idxs[2])).done

(***************************************************************************)
(* Claims about the agents (checked under Spec)                            *)
(***************************************************************************)
\* a learn call of agent i starts in this step
LearnCalled(i) == frame = Idle /\ frame' # Idle /\ frame'.who = i

\* the learn call that is running passed the guard
Learning == frame.at \in {"fetched", "evaluated", "critic_stepped", "actor_stepped"}

\* the learn call that is running, or has just returned, passed the guard
PassedGuard == Learning \/ (frame.at = "returned" /\ frame.updated)

\* C5: a learn call on an agent (of either class) whose buffer received fewer
\* than batch_size transitions returns at once: no attribute of any agent
\* changes (networks, optimizers, buffer, noise), and no index batch is drawn.
C5_LearnBelowBatchSizeIsNoOp ==
    [][ \A i \in Agents :
          (LearnCalled(i) /\ agents[i].memory.mem_cntr < agents[i].batch_size)
          => /\ agents' = agents
             /\ frame'.at = "returned"
             /\ ~frame'.updated
             /\ "batch_idxs" \notin DOMAIN frame' ]_vars

\* learn returned early on a buffer that holds transitions, but too few
C5_Witness ==
    /\ frame.at = "returned"
    /\ ~frame.updated
    /\ agents[frame.who].memory.mem_cntr > 0
    /\ agents[frame.who].memory.mem_cntr = agents[frame.who].batch_size - 1

\* C6: in Agent_Single.learn the TD target of every sampled transition is
\* reward + gamma * target_critic(next_obs, target_actor(next_obs)) * flag, so
\* for a transition stored as terminal (flag 0) it is the stored reward.
C6_SingleTDTarget ==
    (Learning /\ frame.at # "fetched" /\ agents[frame.who].cls = "Agent_Single") =>
        LET ag == agents[frame.who]
            batch == frame.samples[1]
        IN \A p \in DOMAIN frame.batch_idxs :
              LET slot == frame.batch_idxs[p]
                  reward == ag.memory.reward_memory[slot]
                  next_obs == ag.memory.obs_next_memory[slot]
                  flag == ag.memory.terminal_memory[slot]
                  target_q == critic_forward(ag.target_critic, <<AsInput(next_obs)>>,
                                             actor_forward(ag.target_actor, next_obs))
              IN /\ GammaDen * frame.target_value[p]
                        = GammaDen * reward * ValueUnit
                            + GammaNum * GammaDen * target_q * flag
                 /\ flag = 0 => frame.target_value[p] = reward * ValueUnit

\* a batch of a terminal and a non-terminal transition, the target critic's
\* value for both not zero: only the non-terminal one bootstraps
C6_Witness ==
    /\ frame.at = "evaluated"
    /\ agents[frame.who].cls = "Agent_Single"
    /\ frame.samples[1].terminal[1] = 0
    /\ frame.samples[1].terminal[2] = 1
    /\ \A p \in {1, 2} :
          critic_forward(agents[frame.who].target_critic,
                         <<AsInput(frame.samples[1].obs_next[p])>>,
                         actor_forward(agents[frame.who].target_actor,
                                       frame.samples[1].obs_next[p])) # 0
    /\ frame.target_value[1] = frame.samples[1].rewards[1] * ValueUnit
    /\ frame.target_value[2] # frame.samples[1].rewards[2] * ValueUnit

\* tau * online + (1 - tau) * target, for every parameter name
IsBlend(new, tau, online, target) ==
    /\ DOMAIN new = DOMAIN online
    /\ \A name \in DOMAIN online :
          tau.den * new[name]
              = tau.num * online[name] + (tau.den - tau.num) * target[name]

\* the TD target Agent_Multi.learn is to compute for position p of the batch,
\* in a team of two: the critic's first input is both next observations and
\* the other agent's target action
MultiTDTarget(p) ==
    LET i == frame.who
        other == CHOOSE j \in Agents : j # i
        slot == frame.batch_idxs[p]
        next_obs(j) == agents[j].memory.obs_next_memory[slot]
        next_action(j) ==
            actor_forward(IF j = i THEN frame.entry.target_actor
                          ELSE agents[j].target_actor, next_obs(j))
        row == <<AsInput(next_obs(1)), AsInput(next_obs(2)), next_action(other)>>
    IN agents[i].memory.reward_memory[slot] * ValueUnit
         + GammaNum * critic_forward(frame.entry.target_critic, row, next_action(i))
                    * agents[i].memory.terminal_memory[slot]

\* the TD target Agent_Single.learn is to compute for position p of the batch
SingleTDTarget(p) ==
    LET ag == agents[frame.who]
        slot == frame.batch_idxs[p]
        next_obs == ag.memory.obs_next_memory[slot]
    IN ag.memory.reward_memory[slot] * ValueUnit
         + GammaNum * critic_forward(frame.entry.target_critic, <<AsInput(next_obs)>>,
                                     actor_forward(frame.entry.target_actor, next_obs))
                    * ag.memory.terminal_memory[slot]

\* C7: a learn call that passes the guard draws one index batch and fetches
\* it, computes the TD target from the target networks as the call found
\* them, steps the critic's optimizer once, then steps the actor's optimizer
\* once on a loss evaluated with the critic as already updated, and last
\* synchronises the targets once with the configured tau.
C7_LearnStepsInOrder ==
    PassedGuard =>
        LET i == frame.who
            ag == agents[i]
            e == frame.entry
            own_obs == frame.samples[frame.own].obs
            critic_done == frame.at \in {"critic_stepped", "actor_stepped", "returned"}
            actor_done == frame.at \in {"actor_stepped", "returned"}
            sync_done == frame.at = "returned"
        IN \* one batch of batch_size filled slots, fetched from the own buffer
           /\ DOMAIN frame.batch_idxs = 1 .. ag.batch_size
           /\ \A p \in DOMAIN frame.batch_idxs :
                 /\ frame.batch_idxs[p] \in 0 .. (Min(ag.memory.mem_cntr, MemSize) - 1)
                 /\ own_obs[p] = ag.memory.obs_memory[frame.batch_idxs[p]]
           \* the TD target, from the targets as found
           /\ frame.at \in {"evaluated", "critic_stepped", "actor_stepped"} =>
                 \A p \in DOMAIN frame.batch_idxs :
                    frame.target_value[p] =
                        IF ag.cls = "Agent_Single" THEN SingleTDTarget(p)
                        ELSE MultiTDTarget(p)
           \* the critic's step: once, and before the actor's
           /\ ag.critic_optimizer.step =
                 e.critic_optimizer.step + (IF critic_done THEN 1 ELSE 0)
           /\ ~critic_done => ag.critic = e.critic
           /\ frame.at \in {"critic_stepped", "actor_stepped"} =>
                 ag.critic = adam_step(e.critic,
                                 critic_grad(frame.target_value, frame.critic_value,
                                             frame.input_value_fn,
                                             frame.own_actual_action))
           \* the actor's step: once, with the critic as updated
           /\ ag.actor_optimizer.step =
                 e.actor_optimizer.step + (IF actor_done THEN 1 ELSE 0)
           /\ ~actor_done => ag.actor = e.actor
           /\ actor_done =>
                 /\ ag.critic_optimizer.step = e.critic_optimizer.step + 1
                 /\ ag.actor = adam_step(e.actor, actor_grad(ag.critic, own_obs))
           \* the synchronisation: last, once, with the configured tau
           /\ ~sync_done => /\ ag.target_actor = e.target_actor
                            /\ ag.target_critic = e.target_critic
           /\ sync_done => /\ IsBlend(ag.target_actor, e.tau, ag.actor, e.target_actor)
                           /\ IsBlend(ag.target_critic, e.tau, ag.critic,
                                      e.target_critic)

\* an agent's second update has returned: both steps moved their network,
\* the critic's action weight changed sign on the way, the targets moved
C7_Witness ==
    /\ frame.at = "returned"
    /\ frame.updated
    /\ frame.entry.critic_optimizer.step = 1
    /\ agents[frame.who].critic # frame.entry.critic
    /\ agents[frame.who].actor # frame.entry.actor
    /\ Sign(agents[frame.who].critic.action_value)
          # Sign(frame.entry.critic.action_value)
    /\ agents[frame.who].target_critic # frame.entry.target_critic
    /\ agents[frame.who].target_critic # agents[frame.who].critic

\* C8: the parameters of an agent's target networks change in no step but the
\* one that runs _update_network_parameters.
C8_TargetsChangeOnlyInSync ==
    [][ \A i \in Agents :
          ( /\ Constructed(i)
            /\ \/ agents'[i].target_actor # agents[i].target_actor
               \/ agents'[i].target_critic # agents[i].target_critic )
          => /\ frame.at = "actor_stepped"
             /\ frame.who = i
             /\ frame'.at = "returned" ]_vars

\* both optimizers have stepped and moved their networks, the targets are
\* still those the call found
C8_Witness ==
    /\ frame.at = "actor_stepped"
    /\ agents[frame.who].critic # frame.entry.critic
    /\ agents[frame.who].actor # frame.entry.actor
    /\ agents[frame.who].target_critic = frame.entry.target_critic
    /\ agents[frame.who].target_actor = frame.entry.target_actor
    /\ agents[frame.who].target_critic # agents[frame.who].critic
    /\ agents[frame.who].target_actor # agents[frame.who].actor

\* C9: _update_network_parameters sets every target parameter to
\* tau * online + (1 - tau) * target as it was, and leaves the online
\* parameters alone; called without tau, it takes the agent's tau.
C9_SoftUpdateBlends ==
    [][ frame.at = "actor_stepped" =>
          LET i == frame.who
          IN /\ frame'.at = "returned"
             /\ IsBlend(agents'[i].target_critic, agents[i].tau,
                        agents[i].critic, agents[i].target_critic)
             /\ IsBlend(agents'[i].target_actor, agents[i].tau,
                        agents[i].actor, agents[i].target_actor)
             /\ agents'[i].critic = agents[i].critic
             /\ agents'[i].actor = agents[i].actor
             /\ agents[i].tau = Rate(TauNum, TauDen) ]_vars

\* after a soft update every target parameter of the critic lies strictly
\* between its old value and the online value
C9_Witness ==
    /\ frame.at = "returned"
    /\ frame.updated
    /\ \A name \in CriticNames :
          LET new == agents[frame.who].target_critic[name]
              old == frame.entry.target_critic[name]
              online == agents[frame.who].critic[name]
          IN (old < new /\ new < online) \/ (online < new /\ new < old)

\* no optimizer step of agent i since its construction
Fresh(i) ==
    /\ Constructed(i)
    /\ agents[i].critic_optimizer.step = 0
    /\ agents[i].actor_optimizer.step = 0

\* C10: the constructors of both classes end with a synchronisation with
\* tau = 1, so from construction until the first optimizer step each target
\* network equals its online network parameter for parameter.
C10_TargetsEqualOnlineAfterConstruction ==
    \A i \in Agents :
        Fresh(i) => /\ agents[i].target_actor = agents[i].actor
                    /\ agents[i].target_critic = agents[i].critic

\* an agent of each class right after construction, from different draws
C10_Witness ==
    /\ Fresh(1) /\ Fresh(2)
    /\ agents[1].cls = "Agent_Multi" /\ agents[2].cls = "Agent_Single"
    /\ agents[1].memory.mem_cntr = 0 /\ agents[2].memory.mem_cntr = 0
    /\ agents[1].actor # agents[2].actor
    /\ agents[1].target_actor = agents[1].actor
    /\ agents[2].target_critic = agents[2].critic

(***************************************************************************)
(* Claims about the float32 blend (checked under SpecSync)                 *)
(***************************************************************************)
\* C11: with 0 < tau < 1 and the online parameter held fixed, a
\* synchronisation leaves the target no farther from the online parameter
\* than it was: |target_new - online| <= |target_old - online|; in
\* particular a target equal to the online parameter stays where it is.
C11_TargetMovesNoFarther ==
    sync.at = "synced" =>
        Abs(sync.target_new - sync.online * FineUnit)
            <= Abs(sync.target * FineUnit - sync.online * FineUnit)

(***************************************************************************)
(* Claims about the noise source (checked under SpecNoise)                 *)
(***************************************************************************)
\* x_prev as reset leaves it: the configured x0, zero when none was given
ResetValue == IF ou.obj.x0 # NoX0 THEN ou.obj.x0[1] ELSE 0

\* sigma * w in units of 1 / OUScale
NoiseTerm(w) == ou.obj.sigma.num * w * (OUScale \div ou.obj.sigma.den)

\* C12: a call computes x = x_prev + theta * (mu - x_prev) * dt + sigma *
\* sqrt(dt) * n, keeps x as the new x_prev and returns that x; the call
\* starts from the value the call before it returned, the first call after a
\* reset (or after construction) from the reset value.
C12_CallAdvancesFromLastSample ==
    [][ ou'.op = "call" =>
          LET x == ou.obj.x_prev
          IN /\ ou.obj.theta.den * ou.obj.dt.den * (ou'.ret - x - NoiseTerm(ou'.w))
                   = ou.obj.theta.num * ou.obj.dt.num * (ou.obj.mu - x)
             /\ ou'.obj.x_prev = ou'.ret
             /\ ou.op = "call" => x = ou.ret
             /\ ou.op \in {"init", "reset"} => x = ResetValue ]_vars

\* the third call in a row on a source with sigma > 0 and mu not zero: it
\* started from the second call's value and moved on from it
C12_Witness ==
    /\ ou.op = "call"
    /\ ou.since_reset = 3
    /\ ou.obj.sigma.num > 0
    /\ ou.obj.mu # 0
    /\ ou.start # ResetValue
    /\ ou.ret # ou.start
    /\ ou.obj.x_prev = ou.ret

\* the first sample after a reset, on a source with sigma = 0
FirstSampleSigmaZero ==
    /\ ou.op = "call"
    /\ ou.since_reset = 1
    /\ ou.obj.sigma.num = 0

\* C13 as stated: with sigma = 0, reset() and one sample return
\* mu + theta * (mu - x0) * dt (x0 zero when none was given), and mu when
\* x0 = mu.
C13_FirstSampleFromMu ==
    FirstSampleSigmaZero =>
        /\ ou.obj.theta.den * ou.obj.dt.den * (ou.ret - ou.obj.mu)
              = ou.obj.theta.num * ou.obj.dt.num * (ou.obj.mu - ResetValue)
        /\ ResetValue = ou.obj.mu => ou.ret = ou.obj.mu

\* C13 as amended: with sigma = 0, reset() and one sample return
\* x0 + theta * (mu - x0) * dt (x0 zero when none was given), however many
\* samples were drawn before the reset, and mu when x0 = mu.
C13_FirstSampleFromX0 ==
    FirstSampleSigmaZero =>
        /\ ou.obj.theta.den * ou.obj.dt.den * (ou.ret - ResetValue)
              = ou.obj.theta.num * ou.obj.dt.num * (ou.obj.mu - ResetValue)
        /\ ResetValue = ou.obj.mu => ou.ret = ou.obj.mu

\* two samples, a reset, one sample, on a source with sigma = 0 whose x0 was
\* given and is not mu: the sample lies between x0 and mu
C13_Witness ==
    /\ FirstSampleSigmaZero
    /\ ou.calls = 3
    /\ ou.obj.x0 # NoX0
    /\ ou.obj.x0[1] # ou.obj.mu
    /\ ou.ret # ou.obj.mu
    /\ ou.ret # ou.obj.x0[1]

(***************************************************************************)
(* Claims about the agents' interface (checked under Spec)                 *)
(***************************************************************************)
\* C14: for every observation and either value of add_exploration_noise the
\* action choose_action returns lies inside the action space,
\* low <= action <= high.
C14_ActionInsideBounds ==
    \A i \in Agents :
        Constructed(i) =>
            \A obs \in Observations, noise \in BOOLEAN, w \in NormalDraws :
                LET action == choose_action(agents[i], obs, noise, w).ret
                IN /\ ActionSpace.low * ActionUnit <= action
                   /\ action <= ActionSpace.high * ActionUnit

(***************************************************************************)
(* Claims about the multi-agent update (checked under Spec)                *)
(***************************************************************************)
\* the rewards and stored flags a peer's buffer could hold instead
PeerRewards == {0, 1, 2}

PeerFlags == {0, 1}

\* the fetched batches with the rewards and flags of every agent but the
\* updating one replaced by rw and fl
WithPeerRewards(rw, fl) ==
    [k \in DOMAIN frame.samples |->
        IF k = frame.own_idx THEN frame.samples[k]
        ELSE [frame.samples[k] EXCEPT !.rewards = rw, !.terminal = fl]]

\* C15: the TD target of Agent_Multi.learn is the same whatever rewards and
\* continuation flags the other agents' buffers hold: it is computed from the
\* reward and the flag of agents_list[own_idx], so at a terminal transition of
\* the updating agent it is that agent's reward.
C15_TDTargetIgnoresPeersRewards ==
    (frame.at = "evaluated" /\ agents[frame.who].cls = "Agent_Multi") =>
        /\ \A rw \in [DOMAIN frame.batch_idxs -> PeerRewards],
              fl \in [DOMAIN frame.batch_idxs -> PeerFlags] :
                Agent_Multi_learn_evaluate(agents, frame.who, frame.agents_list,
                                           frame.own_idx,
                                           WithPeerRewards(rw, fl)).target_value
                    = frame.target_value
        /\ \A p \in DOMAIN frame.batch_idxs :
              frame.samples[frame.own_idx].terminal[p] = 0 =>
                  frame.target_value[p]
                      = frame.samples[frame.own_idx].rewards[p] * ValueUnit

\* the second agent of the list updates; at one position of the batch its own
\* transition is terminal and the first agent's is not, and the rewards differ
C15_Witness ==
    /\ frame.at = "evaluated"
    /\ agents[frame.who].cls = "Agent_Multi"
    /\ frame.own_idx = 2
    /\ \E p \in DOMAIN frame.batch_idxs :
          /\ frame.samples[2].terminal[p] = 0
          /\ frame.samples[1].terminal[p] = 1
          /\ frame.samples[2].rewards[p] # frame.samples[1].rewards[p]
          /\ frame.target_value[p] = frame.samples[2].rewards[p] * ValueUnit

\* the five fields of position p of batch b are those of slot k of buffer buf
FetchedFrom(b, p, buf, k) ==
    /\ b.obs[p] = buf.obs_memory[k]
    /\ b.actions[p] = buf.action_memory[k]
    /\ b.rewards[p] = buf.reward_memory[k]
    /\ b.obs_next[p] = buf.obs_next_memory[k]
    /\ b.terminal[p] = buf.terminal_memory[k]

\* C16: an Agent_Multi.learn call draws one index batch, from the filled
\* range of the updating agent's buffer, and fetches the batch of every agent
\* of agents_list with it: position p of every agent's batch is slot
\* batch_idxs[p] of that agent's buffer.
C16_OneIndexBatchForAllAgents ==
    (Learning /\ agents[frame.who].cls = "Agent_Multi") =>
        /\ DOMAIN frame.samples = DOMAIN frame.agents_list
        /\ DOMAIN frame.batch_idxs = 1 .. agents[frame.who].batch_size
        /\ \A p \in DOMAIN frame.batch_idxs :
              /\ frame.batch_idxs[p] \in
                    0 .. (Min(agents[frame.who].memory.mem_cntr,
                              agents[frame.who].memory.mem_size) - 1)
              /\ \A k \in DOMAIN frame.agents_list :
                    FetchedFrom(frame.samples[k], p,
                                agents[frame.agents_list[k]].memory,
                                frame.batch_idxs[p])

\* a batch over two different slots, the two agents' buffers differing in both
C16_Witness ==
    /\ frame.at = "fetched"
    /\ agents[frame.who].cls = "Agent_Multi"
    /\ frame.batch_idxs[1] # frame.batch_idxs[2]
    /\ \A p \in {1, 2} : frame.samples[1].obs[p] # frame.samples[2].obs[p]
    /\ frame.samples[2].obs[1] # frame.samples[2].obs[2]

\* the agent whose learn call this step belongs to
Learner == IF frame # Idle THEN frame.who ELSE frame'.who

\* C17: no step of a learn call of agent i, of either class, changes the
\* replay buffer or a parameter of the actor, the critic or the targets of
\* another agent; agent i's own buffer stays as well, only its own networks
\* change.
C17_LearnLeavesPeersAlone ==
    [][ (frame # Idle \/ frame' # Idle) =>
          /\ \A j \in Agents : agents'[j].cls = agents[j].cls
          /\ \A j \in Agents :
                Constructed(j) => agents'[j].memory = agents[j].memory
          /\ \A j \in Agents \ {Learner} :
                Constructed(j) =>
                    /\ agents'[j].actor = agents[j].actor
                    /\ agents'[j].critic = agents[j].critic
                    /\ agents'[j].target_actor = agents[j].target_actor
                    /\ agents'[j].target_critic = agents[j].target_critic ]_vars

\* an Agent_Multi update has returned and moved the agent's own networks; its
\* peer has learned before, so the peer's targets differ from its networks
C17_Witness ==
    /\ frame.at = "returned"
    /\ frame.updated
    /\ agents[frame.who].cls = "Agent_Multi"
    /\ agents[frame.who].critic # frame.entry.critic
    /\ agents[frame.who].target_critic # frame.entry.target_critic
    /\ \E j \in Agents \ {frame.who} :
          /\ agents[j].critic_optimizer.step > 0
          /\ agents[j].target_critic # agents[j].critic
          /\ agents[j].memory.mem_cntr > 0

(***************************************************************************)
(* C18  After any sequence of remember and learn calls, save_models(f)     *)
(* returns normally and leaves under f a blob of exactly the seven items   *)
(* (init_dict, the four networks' parameters, the two optimizers' states)  *)
(* of the agent; init_from_save(f) right after it returns normally with an *)
(* agent of the same hyperparameters, parameters and optimizer states.     *)
(***************************************************************************)
SevenItems ==
    { "init_dict", "actor", "critic", "target_actor", "target_critic",
      "actor_optimizer", "critic_optimizer" }

C18_SaveRestoreRoundTrip ==
    /\ persist.op = "save_models" =>
          /\ persist.raised = "none"
          /\ disk[persist.filename].kind = "blob"
          /\ DOMAIN disk[persist.filename].obj = SevenItems
          /\ disk[persist.filename].obj = agent_networks_state_dict(agents[persist.who])
    /\ (persist.op = "init_from_save" /\ persist.after # 0) =>
          /\ persist.raised = "none"
          /\ agent_networks_state_dict(persist.instance)
                = agent_networks_state_dict(agents[persist.after])

(***************************************************************************)
(* C19  A vector of the wrong length makes the call fail and changes       *)
(* nothing: step(action) with an action whose shape is not the action      *)
(* space's raises before any simulator property is written, and            *)
(* store_transition with an observation, next observation or action of the *)
(* wrong length raises without writing a slot or advancing mem_cntr.       *)
(***************************************************************************)
StepMismatch ==
    /\ env.last.op = "step"
    /\ Len(env.last.action) # Len(action_names)

StoreMismatch ==
    /\ vecbuf.last.op = "store_transition"
    /\ \/ Len(vecbuf.last.obs) # VecInputs
       \/ Len(vecbuf.last.obs_next) # VecInputs
       \/ Len(vecbuf.last.action) # VecActions

C19_WrongLengthFailsLoudly ==
    /\ StepMismatch =>
          /\ env.last.raised # "none"
          /\ env.sim = env.last.before
    /\ StoreMismatch =>
          /\ vecbuf.last.raised # "none"
          /\ vecbuf.buf = vecbuf.last.before

(***************************************************************************)
(* C20  An Agent_Multi.learn call (past the fill guard) whose agents_list  *)
(* is not the list of the trainers in their order, the one the peer sizing *)
(* of the constructor was taken from, fails with an error and updates no   *)
(* network parameter, also when the agents have equal observation and      *)
(* action widths.                                                          *)
(***************************************************************************)
NetworkParameters(ag) ==
    << ag.actor, ag.critic, ag.target_actor, ag.target_critic >>

MismatchedLearn ==
    /\ frame.at \in {"fetched", "raised", "evaluated", "critic_stepped",
                      "actor_stepped"}
    /\ frame.entry.cls = "Agent_Multi"
    /\ frame.entry.critic_n_inputs = 3
    /\ frame.agents_list # Trainers

C20_MismatchedTeamFails ==
    MismatchedLearn =>
        /\ frame.at \in {"fetched", "raised"}
        /\ \A j \in Agents :
              Constructed(j) =>
                NetworkParameters(agents[j])
                    = NetworkParameters(IF j = frame.who THEN frame.entry
                                        ELSE agents[j])

(***************************************************************************)
(* C22  Within one learn call the critic's optimizer step changes critic   *)
(* parameters only and the actor's optimizer step changes actor parameters *)
(* only: the critic step leaves the actor (and both targets) as they were, *)
(* and the actor step leaves the critic as the critic step left it.        *)
(***************************************************************************)
CriticStepTaken == frame.at = "evaluated" /\ frame'.at = "critic_stepped"

ActorStepTaken == frame.at = "critic_stepped" /\ frame'.at = "actor_stepped"

C22_OptimizerStepsKeepToTheirNetwork ==
    [][ /\ CriticStepTaken =>
              /\ agents'[frame.who].actor = agents[frame.who].actor
              /\ agents'[frame.who].target_actor = agents[frame.who].target_actor
              /\ agents'[frame.who].target_critic = agents[frame.who].target_critic
        /\ ActorStepTaken =>
              /\ agents'[frame.who].critic = agents[frame.who].critic
              /\ agents'[frame.who].target_actor = agents[frame.who].target_actor
              /\ agents'[frame.who].target_critic = agents[frame.who].target_critic
      ]_vars

\* both steps of one learn call moved their own network
C22_Witness ==
    /\ frame.at = "actor_stepped"
    /\ agents[frame.who].critic # frame.entry.critic
    /\ agents[frame.who].actor # frame.entry.actor

(***************************************************************************)
(* C24  A choose_action call with add_exploration_noise = True advances    *)
(* the agent's noise state by exactly one sample; a call without it, a     *)
(* remember call and every step of a learn call leave x_prev as it was;    *)
(* the noise state goes back to its initial value only through             *)
(* reset_noise_source, and construction starts it there.                   *)
(***************************************************************************)
NoisyChoice(i) ==
    \E obs \in Observations, w \in NormalDraws : ChooseAction(i, obs, TRUE, w)

C24_NoiseStateMovesOnlyBySampling ==
    [][ \A i \in Agents :
          /\ (~Constructed(i) /\ agents'[i].cls # "None") =>
                /\ agents'[i].x_prev = OUActionNoise_reset
                /\ agents'[i].noise_samples = 0
          /\ Constructed(i) =>
                /\ \A obs \in Observations, w \in NormalDraws :
                      ChooseAction(i, obs, TRUE, w) =>
                        /\ agents'[i].x_prev = OUActionNoise_call(agents[i].x_prev, w)
                        /\ agents'[i].noise_samples = agents[i].noise_samples + 1
                /\ (~NoisyChoice(i) /\ ~ResetNoiseSource(i)) =>
                      /\ agents'[i].x_prev = agents[i].x_prev
                      /\ agents'[i].noise_samples = agents[i].noise_samples
                /\ ResetNoiseSource(i) =>
                      /\ agents'[i].x_prev = OUActionNoise_reset
                      /\ agents'[i].noise_samples = 0
      ]_vars

\* an agent drew one sample and then ran a whole learn call: it holds the
\* sample still
C24_Witness ==
    \E i \in Agents :
        /\ frame.at = "returned"
        /\ frame.who = i
        /\ frame.updated
        /\ agents[i].noise_samples = 1
        /\ agents[i].x_prev # OUActionNoise_reset

(***************************************************************************)
(* C28  After a learn call that passed the guard the updating agent's      *)
(* critic, target actor and target critic are in evaluation mode and its   *)
(* actor is in training mode; after a multi-agent update the critic and    *)
(* the target networks of every agent of agents_list are in evaluation     *)
(* mode too; after any choose_action call the actor is in training mode.   *)
(***************************************************************************)
InEvalMode(ag) ==
    /\ ~ag.training.critic
    /\ ~ag.training.target_actor
    /\ ~ag.training.target_critic

ModesAfterLearn ==
    (frame.at = "returned" /\ frame.updated) =>
        /\ InEvalMode(agents[frame.who])
        /\ agents[frame.who].training.actor
        /\ agents[frame.who].cls = "Agent_Multi" =>
              \A k \in DOMAIN frame.agents_list :
                  InEvalMode(agents[frame.agents_list[k]])

C28_ModesLeftFixed ==
    /\ []ModesAfterLearn
    /\ [][ \A i \in Agents :
              (\E obs \in Observations, noise \in BOOLEAN, w \in NormalDraws :
                  ChooseAction(i, obs, noise, w))
              => agents'[i].training.actor ]_vars

\* a multi-agent update returned and its peer, which has not taken a learning
\* step of its own, has its critic and target networks in evaluation mode
C28_Witness ==
    /\ frame.at = "returned"
    /\ frame.updated
    /\ agents[frame.who].cls = "Agent_Multi"
    /\ \E j \in Agents :
          /\ j # frame.who
          /\ InEvalMode(agents[j])
          /\ agents[j].critic_optimizer.step = 0

(***************************************************************************)
(* C21  The training loop is left only through the episode count: train    *)
(* leaves it at the end of the iteration in which the number of completed  *)
(* episodes first reaches num_episodes (len(episode_rewards) >             *)
(* num_episodes), after every trainer's update of that iteration, and      *)
(* never before; as every episode ends, the loop is left eventually.       *)
(***************************************************************************)
LoopLeft == train.pc = "done"

LeftAtTheEpisodeCount ==
    LoopLeft =>
        /\ train.episode_counter = train.num_episodes
        /\ Len(train.episode_rewards) > train.num_episodes
        /\ (\E i \in DOMAIN Trainers : train.done_n[i]) \/ train.terminal
        /\ \A i \in DOMAIN Trainers : train.updated[i] = train.train_step

StaysBelowTheEpisodeCount ==
    (train.pc # "none" /\ train.pc \notin {"update", "finish", "done"}) =>
        train.episode_counter < train.num_episodes

C21_LoopEndsAtEpisodeCount ==
    /\ []LeftAtTheEpisodeCount
    /\ []StaysBelowTheEpisodeCount
    /\ [][(~LoopLeft /\ LoopLeft') => train.pc = "finish"]_vars
    /\ <>LoopLeft

\* the loop was left after three episodes, one of them longer than one step
C21_Witness ==
    /\ LoopLeft
    /\ train.num_episodes = MaxEpisodes
    /\ train.train_step > MaxEpisodes

(***************************************************************************)
(* C26  In every iteration of the training loop each trainer is given the  *)
(* transition of the joint environment step by exactly one                 *)
(* process_experience call, and all these calls come before any trainer's  *)
(* update of the iteration: whenever an update runs, every trainer has     *)
(* been given the same number of transitions, of the same steps.           *)
(***************************************************************************)
\* trainer i has been given exactly the transitions of the steps 1 .. n
GivenSteps(i, n) ==
    /\ Len(train.given[i]) = n
    /\ \A j \in 1 .. n : train.given[i][j].step = j

\* 1 for the trainers the running comprehension or loop has passed
Passed(i) == IF i < train.k THEN 1 ELSE 0

C26_ExperienceBeforeUpdates ==
    /\ train.pc \in {"update", "finish", "done"} =>
          \A i \in DOMAIN Trainers :
              /\ GivenSteps(i, train.train_step)
              /\ train.given[i] = train.given[1]
    /\ train.pc = "update" =>
          \A i \in DOMAIN Trainers :
              train.updated[i] = train.train_step - 1 + Passed(i)
    /\ train.pc = "experience" =>
          \A i \in DOMAIN Trainers :
              /\ GivenSteps(i, train.train_step + Passed(i))
              /\ train.updated[i] = train.train_step
    /\ train.pc \in {"action", "step"} =>
          \A i \in DOMAIN Trainers :
              /\ GivenSteps(i, train.train_step)
              /\ train.updated[i] = train.train_step

\* the second iteration: the first trainer has updated, the second is about to
C26_Witness ==
    /\ train.pc = "update"
    /\ train.k = 2
    /\ train.train_step = 2
    /\ Len(train.given[2]) = 2

(***************************************************************************)
(* C29  Whenever a step of the training loop ends an episode (any agent    *)
(* done, or the environment terminal), the environment is reset and        *)
(* reset_notifier is called on every trainer before the next action is     *)
(* chosen, the next actions are computed from the reset observation, and   *)
(* episode_rewards and every agent's reward list get exactly one new       *)
(* entry: len(episode_rewards) = episode_counter + 1 at every iteration    *)
(* boundary.                                                               *)
(***************************************************************************)
\* the last environment step ended an episode
StepEndedEpisode ==
    (\E i \in DOMAIN Trainers : train.done_n[i]) \/ train.terminal

\* the actions of this iteration have been chosen and the step is not made
ActionsChosen == train.pc = "step"

C29_EpisodeEndResetsBeforeNextAction ==
    /\ train.pc \in {"action", "step", "update", "finish", "done"} =>
          /\ Len(train.episode_rewards) = train.episode_counter + 1
          /\ \A i \in DOMAIN Trainers :
                Len(train.agent_rewards[i]) = train.episode_counter + 1
    /\ (ActionsChosen /\ train.train_step > 0 /\ StepEndedEpisode) =>
          /\ train.env_resets = train.episode_counter + 1
          /\ \A i \in DOMAIN Trainers : train.notified[i] = train.env_resets
          /\ train.action_n = Observed("reset", train.env_resets)
    /\ (ActionsChosen /\ train.train_step > 0 /\ ~StepEndedEpisode) =>
          train.action_n = Observed("step", train.train_step)
    /\ train.pc \in {"update", "finish"} =>
          (train.episode_step = 0) = StepEndedEpisode

\* the actions after the second episode's end, an episode that one agent's
\* done ended
C29_Witness ==
    /\ ActionsChosen
    /\ train.episode_counter = 2
    /\ ~train.terminal
    /\ train.action_n = Observed("reset", 3)

(***************************************************************************)
(* C27  Whenever Agent_Multi.learn passes its own fill guard, every index  *)
(* it samples is the index of a written slot in the buffer of every agent  *)
(* of agents_list: it is below min(mem_cntr, mem_size) of each of them.    *)
(***************************************************************************)
C27_SampledSlotsWrittenInEveryBuffer ==
    (frame.at = "fetched" /\ frame.entry.cls = "Agent_Multi") =>
        \A k \in DOMAIN frame.agents_list, p \in DOMAIN frame.batch_idxs :
            LET memory == agents[frame.agents_list[k]].memory
            IN frame.batch_idxs[p] < Min(memory.mem_cntr, memory.mem_size)

(***************************************************************************)
(* C25  An Agent_Multi built without peers and called as learn([self], 0)  *)
(* performs the update Agent_Single.learn performs on the same buffer,     *)
(* sampled indices and parameters: the same TD target and critic value,    *)
(* then the critic step, the actor step and the synchronisation.           *)
(***************************************************************************)
\* the running learn call is one of an Agent_Multi without peers on itself
PeerlessLearn ==
    /\ frame.at \in {"fetched", "raised", "evaluated", "critic_stepped",
                      "actor_stepped"}
    /\ frame.entry.cls = "Agent_Multi"
    /\ frame.entry.critic_n_inputs = 1
    /\ frame.agents_list = <<frame.who>>
    /\ frame.own_idx = 1

C25_PeerlessMultiLearnsAsSingle ==
    PeerlessLearn =>
        /\ frame.at # "raised"
        /\ frame.at = "evaluated" =>
              LET single == Agent_Single_learn_evaluate(frame.entry, frame.samples[1])
              IN /\ frame.target_value = single.target_value
                 /\ frame.critic_value = single.critic_value

(***************************************************************************)
(* C23  In Agent_Multi.learn with N >= 2 agents, row p of the critic's     *)
(* first input is the observations of all agents at sample p in            *)
(* agents_list order followed by the actions at sample p of every agent    *)
(* but the own one, in that order; the own action is the second input; the *)
(* target-value input is built alike from the next observations and the    *)
(* target next actions; every row has the width the critic was built with. *)
(***************************************************************************)
\* the positions of agents_list without the own one, in order
Others(N, own_idx) == RemoveAt([k \in 1 .. N |-> k], own_idx)

\* row p as the claim lays it out, from the observations obs and actions act
\* of the agents
JointRow(N, own_idx, obs, act, p) ==
    [k \in 1 .. N |-> obs[k][p][1]]
        \o [j \in 1 .. (N - 1) |-> act[Others(N, own_idx)[j]][p][1]]

C23_CriticInputJoinsAllAgentsPerSample ==
    joint.op = "joined" =>
        LET N == Len(joint.batch)
            own_idx == joint.own_idx
            obs == [k \in 1 .. N |-> joint.batch[k].obs]
            act == [k \in 1 .. N |-> joint.batch[k].actions]
            obs_next == [k \in 1 .. N |-> joint.batch[k].obs_next]
            next_act == [k \in 1 .. N |-> joint.batch[k].target_next_action]
        IN /\ joint.out.raised = "none"
           /\ \A p \in 1 .. BatchSize :
                 /\ joint.out.input_value_fn[p] = JointRow(N, own_idx, obs, act, p)
                 /\ Len(joint.out.input_value_fn[p]) = 2 * N - 1
                 /\ joint.out.own_actual_action[p] = act[own_idx][p]
                 /\ joint.out.input_target_value_fn[p]
                       = JointRow(N, own_idx, obs_next, next_act, p)
                 /\ joint.out.own_next_action[p] = next_act[own_idx][p]

(***************************************************************************)
(* C30  reduce_noise_sigma(sigma_factor, theta_factor) completes without   *)
(* error on a constructed agent; afterwards noise_sigma and noise_theta    *)
(* are the former values times the factors, the noise source is a new one  *)
(* with these values and the action dimensionality in its reset state, and *)
(* the networks and the replay buffer are as before.                       *)
(***************************************************************************)
SameRate(a, b) == a.num * b.den = b.num * a.den

C30_ReduceNoiseSigmaRebuildsNoise ==
    tuned.op = "reduced" =>
        LET old == tuned.before
            new == tuned.self
        IN /\ tuned.raised = "none"
           /\ SameRate(new.noise_sigma, RateTimes(old.noise_sigma, tuned.sigma_factor))
           /\ SameRate(new.noise_theta, RateTimes(old.noise_theta, tuned.theta_factor))
           /\ SameRate(new.noise.sigma, new.noise_sigma)
           /\ SameRate(new.noise.theta, new.noise_theta)
           /\ new.noise.mu_shape = ActionShape
           /\ new.noise.x_prev = OUActionNoise_reset
           /\ new.agent = old.agent

====
